---- MODULE Spec2Model ----
(***************************************************************************)
(* The secure multi-party computation orchestrator of                      *)
(* ai-agent-implementation/src/mpc: MPCServer (party roster, task queue,   *)
(* autonomous drain loop, computation sessions), MPCSecurityGovernance     *)
(* (policies, validation, audit log) and MPCManager (validated entry       *)
(* points).                                                                *)
(*                                                                         *)
(* JavaScript runs each piece of code between two awaits to completion,    *)
(* so one action is one such piece: a public method called by a client,    *)
(* or the continuation of an async function after a timer or a promise     *)
(* resolved.  crypto.randomUUID() is a fresh id, drawn from a counter.     *)
(* The task label and the input data are opaque payload that no branch     *)
(* reads; they are left out of the entries.                                *)
(***************************************************************************)
EXTENDS Integers, Sequences, FiniteSets

\* ------------------------------------------------------------------ bounds
\* addTaskToQueue calls in a behaviour.
MaxTasks == 3
\* executeSecureComputation / executeTaskOnServer calls made by clients.
MaxCalls == 2
\* addParty / removeParty calls in a behaviour.
MaxRosterOps == 1
\* Tasks enqueued plus calls made, where the Manager, direct calls and the
\* drain loop run side by side.
MaxWork == 2

\* ---------------------------------------------------------------- universe
ServerNames == {"alpha", "beta"}
Priorities == {0, 1, 3, 5}
Sensitivities == {"low", "medium", "high"}

Party(id, auth) == [id |-> id, authenticated |-> auth]
\* The parties a client may add to a roster.
PartyPool == {Party("p1", TRUE), Party("p2", TRUE), Party("p3", TRUE),
              Party("p4", TRUE), Party("u1", FALSE)}
\* The rosters a server is created with.
Rosters == {<<>>,
            <<Party("p1", TRUE)>>,
            <<Party("u1", FALSE)>>,
            <<Party("p1", TRUE), Party("p2", TRUE)>>,
            <<Party("p1", TRUE), Party("p2", TRUE), Party("p3", TRUE)>>,
            <<Party("p1", TRUE), Party("p2", TRUE), Party("p3", TRUE),
              Party("p4", TRUE)>>}

\* The policy ids a client names, 'custom' being defined by no default.
PolicyNames == {"high-sensitivity", "medium-sensitivity", "default", "custom"}
\* The updates a client hands to updatePolicy.
PolicyUpdates == {[requirePartyAuthentication |-> FALSE],
                  [minimumParties |-> 1],
                  [dataSensitivityLevels |-> {"low"}],
                  [requireEncryption |-> TRUE]}
\* The operations a client has validated.
Operations == {[encrypted |-> TRUE], [encrypted |-> FALSE]}
\* The rosters a client has validated.
ValidatedRosters ==
  {<<>>,
   <<Party("p1", TRUE)>>,
   <<Party("u1", FALSE)>>,
   <<Party("p1", TRUE), Party("p2", TRUE)>>,
   <<Party("u1", FALSE), Party("p1", TRUE), Party("u2", FALSE)>>,
   <<Party("p1", TRUE), Party("p2", TRUE), Party("p3", TRUE)>>}
\* The policies a client defines: a new one, and 'default' over again.
DefinedPolicies ==
  {[id |-> "custom", requirePartyAuthentication |-> FALSE, minimumParties |-> 3,
    requireEncryption |-> TRUE, dataSensitivityLevels |-> {"low", "medium"}],
   [id |-> "default", requirePartyAuthentication |-> TRUE, minimumParties |-> 1,
    requireEncryption |-> FALSE,
    dataSensitivityLevels |-> {"low", "medium", "high"}]}
\* The standards a client asks about, 'PCI DSS' being unsupported.
Standards == {"GDPR", "SOX", "PCI DSS"}

NoId == 0
NoResult == [kind |-> "null"]
\* The number a division of a non-numeric string gives.
NaN == [kind |-> "NaN"]

DistributionError == "Too many parties failed during share distribution"
CollectionError == "Too many parties failed during result collection"
NoValidResultsError == "No valid results received from parties"

VARIABLES
  servers,          \* MPCManager.servers: the registered server names, in order
  securityPolicies, \* MPCSecurityGovernance.securityPolicies, in insertion order
  auditLogs,        \* MPCSecurityGovernance.auditLogs
  parties,          \* MPCServer.parties, per server
  computationId,    \* MPCServer.computationId, per server (NoId: null)
  results,          \* MPCServer.results, per server
  autonomousMode,   \* MPCServer.autonomousMode, per server
  taskQueue,        \* MPCServer.taskQueue, per server
  isProcessing,     \* MPCServer.isProcessing, per server
  drains,           \* the processTaskQueue invocations past their guard
  sessions,         \* the executeSecureComputation invocations in flight
  nextTaskId,       \* the next fresh task id
  nextCid,          \* the next fresh computation id
  calls,            \* client calls made so far (bounded by MaxCalls)
  rosterOps,        \* addParty/removeParty calls made so far
  dequeued,         \* history: the entries the drain loop shifted, per server
  burst,            \* history: the addTaskToQueue calls made back to back
  nextAuditId,      \* the next fresh audit entry id
  lastCall,         \* history: the last Manager or Governance call and its outcome
  batches,          \* the executeTask invocations in flight or just returned
  lastCancel        \* history: the cancelQueuedTask call just made and what it returned

vars == <<servers, securityPolicies, auditLogs, parties, computationId, results,
          autonomousMode, taskQueue, isProcessing, drains, sessions, nextTaskId,
          nextCid, calls, rosterOps, dequeued, burst, nextAuditId, lastCall,
          batches, lastCancel>>

\* The Manager's side: what no method of MPCServer touches.
managerVars == <<servers, securityPolicies, auditLogs, nextAuditId, lastCall,
                 batches>>

\* ----------------------------------------------------------------- helpers
Range(f) == {f[i] : i \in DOMAIN f}

Min(S) == CHOOSE x \in S : \A y \in S : x <= y

InsertAt(q, i, e) == SubSeq(q, 1, i - 1) \o <<e>> \o SubSeq(q, i, Len(q))

RemoveAt(q, i) == SubSeq(q, 1, i - 1) \o SubSeq(q, i + 1, Len(q))

IsPrefix(a, b) == Len(a) <= Len(b) /\ a = SubSeq(b, 1, Len(a))

\* Mutant: the lookup finds a server for every name.
AnyServerName == ServerNames

Registered == Range(servers)

\* --------------------------------------------------- MPCSecurityGovernance
\* A policy as defineSecurityPolicy stores it. levels is {} for a policy that
\* declares no dataSensitivityLevels: the undefined field and the empty list
\* both make the sensitivity check of validateOperation a no-op.
Policy(id, auth, min, enc, levels) ==
  [id |-> id, requirePartyAuthentication |-> auth, minimumParties |-> min,
   requireEncryption |-> enc, dataSensitivityLevels |-> levels]

\* MPCManager.initializeDefaultPolicies: the Map's insertion order.
DefaultPolicies ==
  << Policy("high-sensitivity", TRUE, 3, FALSE, {"high", "critical"}),
     Policy("medium-sensitivity", TRUE, 2, FALSE, {"medium"}),
     Policy("default", TRUE, 2, FALSE, {}) >>

PartyIds(ps) == [i \in DOMAIN ps |-> ps[i].id]

\* Mutant: the party count is tested with <= for <.
ViolationsAtMinimum(policy, operation, ps, dataSensitivity) ==
  LET unauth == SelectSeq(ps, LAMBDA p : ~p.authenticated)
      authV == IF policy.requirePartyAuthentication
               THEN [i \in DOMAIN unauth |-> <<"not authenticated", unauth[i].id>>]
               ELSE <<>>
      sensV == IF /\ dataSensitivity \in policy.dataSensitivityLevels
                  /\ Len(ps) <= policy.minimumParties
               THEN << <<"insufficient parties", dataSensitivity>> >>
               ELSE <<>>
      encV == IF policy.requireEncryption /\ ~operation.encrypted
              THEN << <<"not encrypted", "operation">> >>
              ELSE <<>>
  IN authV \o sensV \o encV

\* The violations one policy finds, in the order the code pushes them.
Violations(policy, operation, ps, dataSensitivity) ==
  LET unauth == SelectSeq(ps, LAMBDA p : ~p.authenticated)
      authV == IF policy.requirePartyAuthentication
               THEN [i \in DOMAIN unauth |-> <<"not authenticated", unauth[i].id>>]
               ELSE <<>>
      sensV == IF /\ dataSensitivity \in policy.dataSensitivityLevels
                  /\ Len(ps) < policy.minimumParties
               THEN << <<"insufficient parties", dataSensitivity>> >>
               ELSE <<>>
      encV == IF policy.requireEncryption /\ ~operation.encrypted
              THEN << <<"not encrypted", "operation">> >>
              ELSE <<>>
  IN authV \o sensV \o encV

\* The result of one policy.
PolicyResult(policy, operation, ps, dataSensitivity) ==
  LET v == Violations(policy, operation, ps, dataSensitivity)
  IN [policyId |-> policy.id, passed |-> (v = <<>>), violations |-> v]

\* Mutant: the loop over the policies stops at the first policy that failed.
ValidationResultsEarlyExit(policies, operation, ps, dataSensitivity) ==
  LET all == [i \in DOMAIN policies |->
                PolicyResult(policies[i], operation, ps, dataSensitivity)]
      bad == {i \in DOMAIN all : ~all[i].passed}
  IN IF bad = {} THEN all ELSE SubSeq(all, 1, Min(bad))

\* Mutant: with no policy defined the operation is denied.
ValidationResultsDenyUngoverned(policies, operation, ps, dataSensitivity) ==
  IF policies = <<>>
  THEN <<[policyId |-> "none", passed |-> FALSE,
          violations |-> <<"No security policy defined">>]>>
  ELSE [i \in DOMAIN policies |->
          PolicyResult(policies[i], operation, ps, dataSensitivity)]

\* validateOperation's result list: one result per policy, no early exit.
ValidationResults(policies, operation, ps, dataSensitivity) ==
  [i \in DOMAIN policies |->
     PolicyResult(policies[i], operation, ps, dataSensitivity)]

AuditCap == 1000

\* An audit entry as logAuditEvent builds it (the timestamp is left out: no
\* branch reads it, and the id already tells the entries apart).
AuditEntry(id, eventType, details) ==
  [id |-> id, eventType |-> eventType, details |-> details]

\* Mutant: the cap test with >= for >, which keeps one entry too few.
LogAuditEventCapAtLimit(log, entry) ==
  LET pushed == Append(log, entry)
  IN IF Len(pushed) >= AuditCap
     THEN SubSeq(pushed, Len(pushed) - AuditCap + 2, Len(pushed))
     ELSE pushed

\* logAuditEvent: push, then keep only the last AuditCap entries.
LogAuditEvent(log, entry) ==
  LET pushed == Append(log, entry)
  IN IF Len(pushed) > AuditCap
     THEN SubSeq(pushed, Len(pushed) - AuditCap + 1, Len(pushed))
     ELSE pushed

\* Mutant: the entry records the roster without its last party.
ValidationDetailsShortRoster(operation, ps, dataSensitivity, res) ==
  [operation |-> operation,
   parties |-> PartyIds(SubSeq(ps, 1, Len(ps) - 1)),
   dataSensitivity |-> dataSensitivity, results |-> res]

\* The details validateOperation logs.
ValidationDetails(operation, ps, dataSensitivity, res) ==
  [operation |-> operation, parties |-> PartyIds(ps),
   dataSensitivity |-> dataSensitivity, results |-> res]

ValidationEntry(id, operation, ps, dataSensitivity, res) ==
  AuditEntry(id, "operation_validation",
             ValidationDetails(operation, ps, dataSensitivity, res))

\* Mutant: the entry holds results evaluated against the policies the Manager
\* started with, not against the policies as they are when the call is made.
LogValidationStalePolicies(log, id, operation, ps, dataSensitivity) ==
  LogAuditEvent(log,
    ValidationEntry(id, operation, ps, dataSensitivity,
      ValidationResults(DefaultPolicies, operation, ps, dataSensitivity)))

\* The audit log after validateOperation ran on it with the policies as they
\* are: validateOperation has no await, so it evaluates and logs in one piece.
LogValidation(log, id, operation, ps, dataSensitivity) ==
  LogAuditEvent(log,
    ValidationEntry(id, operation, ps, dataSensitivity,
      ValidationResults(securityPolicies, operation, ps, dataSensitivity)))

\* Mutant: only a failure of the 'default' policy blocks an operation.
FailedValidationsOfDefault(res) ==
  SelectSeq(res, LAMBDA r : ~r.passed /\ r.policyId = "default")

\* MPCManager: the validations that block an operation.
FailedValidations(res) == SelectSeq(res, LAMBDA r : ~r.passed)

\* The operation the Manager validates: { encrypted: true }.
ManagerOperation == [encrypted |-> TRUE]

\* What a call raised: nothing, or an Error.
NoError == [error |-> "none"]

NotFoundError(name) == [error |-> "MPC Server not found", name |-> name]

\* `Security validation failed: ...`, with the violations of each failed
\* policy joined by ', ' and the policies by '; '.
SecurityValidationError(failed) ==
  [error |-> "Security validation failed",
   violations |-> [i \in DOMAIN failed |-> failed[i].violations]]

PolicyNotFoundError(policyId) ==
  [error |-> "Policy not found", policyId |-> policyId]

UnsupportedStandardError(standard) ==
  [error |-> "Unsupported compliance standard", standard |-> standard]

NoCall == [seq |-> 0, op |-> "none"]

\* What cancelQueuedTask returns for an id it does not find: null.
NoTask == [id |-> NoId, status |-> "null"]

NoCancel == [server |-> "none", taskId |-> NoId, returned |-> NoTask]

\* What the Manager and Governance actions leave alone.
serverVars == <<parties, computationId, results, autonomousMode, taskQueue,
                isProcessing, drains, sessions, nextTaskId, nextCid, rosterOps,
                dequeued>>

\* Mutant: the lookup of a policy id falls back to the first policy.
PolicyIndexOrFirst(policyId) ==
  IF \E i \in DOMAIN securityPolicies : securityPolicies[i].id = policyId
  THEN CHOOSE i \in DOMAIN securityPolicies : securityPolicies[i].id = policyId
  ELSE 1

PolicyIndex(policyId) ==
  IF \E i \in DOMAIN securityPolicies : securityPolicies[i].id = policyId
  THEN CHOOSE i \in DOMAIN securityPolicies : securityPolicies[i].id = policyId
  ELSE 0

\* { ...policy, ...updates }: the fields of updates replace the policy's.
MergePolicy(policy, updates) ==
  [f \in DOMAIN policy |-> IF f \in DOMAIN updates THEN updates[f] ELSE policy[f]]

\* A client calls validateOperation on the Governance object.
ValidateOperation(operation, ps, dataSensitivity) ==
  /\ calls < MaxCalls
  /\ calls' = calls + 1
  /\ auditLogs' = LogValidation(auditLogs, nextAuditId, operation, ps,
                                dataSensitivity)
  /\ nextAuditId' = nextAuditId + 1
  /\ lastCall' = [seq |-> calls + 1, op |-> "validateOperation",
                  operation |-> operation, parties |-> ps,
                  dataSensitivity |-> dataSensitivity,
                  returned |-> ValidationResults(securityPolicies, operation,
                                                 ps, dataSensitivity),
                  raised |-> NoError, logged |-> nextAuditId]
  /\ burst' = <<>>
  /\ UNCHANGED <<servers, securityPolicies, batches, serverVars>>
  /\ lastCancel' = NoCancel

\* defineSecurityPolicy: Map.set keeps the place of a key that exists and puts
\* a new key last. It writes no audit entry.
DefineSecurityPolicy(policy) ==
  /\ calls < MaxCalls
  /\ calls' = calls + 1
  /\ securityPolicies' =
       IF PolicyIndex(policy.id) # 0
       THEN [securityPolicies EXCEPT ![PolicyIndex(policy.id)] = policy]
       ELSE Append(securityPolicies, policy)
  /\ lastCall' = [seq |-> calls + 1, op |-> "defineSecurityPolicy",
                  policyId |-> policy.id, raised |-> NoError]
  /\ burst' = <<>>
  /\ UNCHANGED <<servers, auditLogs, nextAuditId, batches, serverVars>>
  /\ lastCancel' = NoCancel

\* updatePolicy: an Error for an unknown id, else the merge and its entry.
UpdatePolicy(policyId, updates) ==
  /\ calls < MaxCalls
  /\ calls' = calls + 1
  /\ IF PolicyIndex(policyId) = 0
     THEN /\ lastCall' = [seq |-> calls + 1, op |-> "updatePolicy",
                          policyId |-> policyId,
                          raised |-> PolicyNotFoundError(policyId)]
          /\ UNCHANGED <<securityPolicies, auditLogs, nextAuditId>>
     ELSE /\ securityPolicies' =
               [securityPolicies EXCEPT ![PolicyIndex(policyId)] =
                  MergePolicy(@, updates)]
          /\ auditLogs' = LogAuditEvent(auditLogs,
               AuditEntry(nextAuditId, "policy_update",
                          [policyId |-> policyId, updates |-> updates]))
          /\ nextAuditId' = nextAuditId + 1
          /\ lastCall' = [seq |-> calls + 1, op |-> "updatePolicy",
                          policyId |-> policyId, raised |-> NoError]
  /\ burst' = <<>>
  /\ UNCHANGED <<servers, batches, serverVars>>
  /\ lastCancel' = NoCancel

\* removePolicy: Map.delete, and an entry when the id was defined; it returns
\* whether it was.
RemovePolicy(policyId) ==
  /\ calls < MaxCalls
  /\ calls' = calls + 1
  /\ securityPolicies' = SelectSeq(securityPolicies, LAMBDA p : p.id # policyId)
  /\ IF PolicyIndex(policyId) # 0
     THEN /\ auditLogs' = LogAuditEvent(auditLogs,
               AuditEntry(nextAuditId, "policy_remove", [policyId |-> policyId]))
          /\ nextAuditId' = nextAuditId + 1
     ELSE UNCHANGED <<auditLogs, nextAuditId>>
  /\ lastCall' = [seq |-> calls + 1, op |-> "removePolicy",
                  policyId |-> policyId, raised |-> NoError,
                  returned |-> (PolicyIndex(policyId) # 0)]
  /\ burst' = <<>>
  /\ UNCHANGED <<servers, batches, serverVars>>
  /\ lastCancel' = NoCancel

\* this.complianceStandards, in the array's order.
ComplianceStandards == <<"GDPR", "HIPAA", "SOX", "ISO 27001", "NIST CSF">>

\* The findings checkCompliance pushes for a standard.
Findings(standard) ==
  IF standard = "GDPR"
  THEN <<"Data minimization principle applied",
         "Purpose limitation ensured through MPC protocols">>
  ELSE IF standard = "HIPAA"
  THEN <<"Data encrypted in transit and at rest",
         "Access controls implemented">>
  ELSE <<>>

ComplianceReport(standard) ==
  [standard |-> standard, compliant |-> TRUE, findings |-> Findings(standard)]

\* checkCompliance: an Error for a standard not in the list, else the report
\* and its compliance_check entry.
CheckCompliance(standard) ==
  /\ calls < MaxCalls
  /\ calls' = calls + 1
  /\ IF standard \notin Range(ComplianceStandards)
     THEN /\ lastCall' = [seq |-> calls + 1, op |-> "checkCompliance",
                          raised |-> UnsupportedStandardError(standard)]
          /\ UNCHANGED <<auditLogs, nextAuditId>>
     ELSE /\ auditLogs' = LogAuditEvent(auditLogs,
               AuditEntry(nextAuditId, "compliance_check",
                          ComplianceReport(standard)))
          /\ nextAuditId' = nextAuditId + 1
          /\ lastCall' = [seq |-> calls + 1, op |-> "checkCompliance",
                          raised |-> NoError,
                          returned |-> ComplianceReport(standard)]
  /\ burst' = <<>>
  /\ UNCHANGED <<servers, securityPolicies, batches, serverVars>>
  /\ lastCancel' = NoCancel

\* The audit log after checkCompliance ran for the first n standards, the
\* entries taking the ids from id on.
RECURSIVE LogComplianceChecks(_, _, _)
LogComplianceChecks(log, id, n) ==
  IF n = 0
  THEN log
  ELSE LogAuditEvent(LogComplianceChecks(log, id, n - 1),
         AuditEntry(id + n - 1, "compliance_check",
                    ComplianceReport(ComplianceStandards[n])))

\* Mutant: slice(0, n), the first n elements.
FirstN(q, n) == SubSeq(q, 1, IF Len(q) > n THEN n ELSE Len(q))

\* The last n elements of a sequence: slice(-n).
LastN(q, n) == SubSeq(q, IF Len(q) > n THEN Len(q) - n + 1 ELSE 1, Len(q))

\* generateSecurityReport: the report is built from the log as it is, then
\* checkCompliance runs once per standard.
GenerateSecurityReport ==
  /\ calls < MaxCalls
  /\ calls' = calls + 1
  /\ auditLogs' = LogComplianceChecks(auditLogs, nextAuditId,
                                      Len(ComplianceStandards))
  /\ nextAuditId' = nextAuditId + Len(ComplianceStandards)
  /\ lastCall' =
       [seq |-> calls + 1, op |-> "generateSecurityReport", raised |-> NoError,
        returned |->
          [totalPolicies |-> Len(securityPolicies),
           totalAudits |-> Len(auditLogs),
           recentViolations |->
             LastN(SelectSeq(auditLogs,
                     LAMBDA e : /\ e.eventType = "operation_validation"
                                /\ \E i \in DOMAIN e.details.results :
                                     ~e.details.results[i].passed),
                   10)]]
  /\ burst' = <<>>
  /\ UNCHANGED <<servers, securityPolicies, batches, serverVars>>
  /\ lastCancel' = NoCancel

\* ------------------------------------------------------ MPCServer: sessions
\* Mutant: the distribution check with >= for >.
DistributionThresholdAtHalf(failed, n) == 2 * failed >= n

\* Mutant: the collection check with >= for >.
CollectionThresholdAtHalf(failed, n) == 2 * failed >= n

\* failedDistributions.length > this.parties.length / 2
DistributionThresholdExceeded(failed, n) == 2 * failed > n

\* failedCollections.length > this.parties.length / 2
CollectionThresholdExceeded(failed, n) == 2 * failed > n

\* The state of executeSecureComputation at its first await: the computation is
\* initialized, the shares are built and the first share is on its way (or, with
\* no party, distributeShares has returned an empty list). iter is the array the
\* running for-of loop walks and live tells whether it still is this.parties
\* (removeParty assigns a new array, addParty pushes onto the current one).
\* stages, nDist, nColl, aggregated, startRoster and rosterChanged are
\* history; stages lists the steps of executeSecureComputation entered so far.
NewSession(s, cid, origin) ==
  [cid |-> cid, server |-> s, origin |-> origin,
   pc |-> IF Len(parties[s]) = 0 THEN "distributed" ELSE "distributing",
   iter |-> parties[s], live |-> TRUE,
   idx |-> IF Len(parties[s]) = 0 THEN 0 ELSE 1,
   distFailed |-> 0, partyResults |-> <<>>,
   status |-> "running", error |-> "", result |-> NoResult,
   stages |-> <<"Init", "Distributing">>,
   nDist |-> -1, nColl |-> -1, aggregated |-> FALSE,
   startRoster |-> parties[s], rosterChanged |-> FALSE]

\* executeSecureComputation up to its first await, called on server s by a
\* continuation that leaves the invocations others in flight.
StartSessionBeside(others, s, origin) ==
  /\ sessions' = others \cup {NewSession(s, nextCid, origin)}
  /\ computationId' = [computationId EXCEPT ![s] = nextCid]
  /\ results' = [results EXCEPT ![s] = NoResult]
  /\ nextCid' = nextCid + 1

\* executeSecureComputation up to its first await, called on server s.
StartSession(s, origin) == StartSessionBeside(sessions, s, origin)

InFlight(x) == x.pc # "done"

\* Mutant: no catch block, the Error leaves executeSecureComputation.
RethrowError(x, message) ==
  [x EXCEPT !.pc = "done", !.status = "raised", !.error = message]

\* The catch block of executeSecureComputation: an Error thrown inside the try
\* becomes the returned value { task, error: error.message, status: 'error' }.
CatchError(x, message) ==
  [x EXCEPT !.pc = "done", !.status = "error", !.error = message,
            !.stages = Append(@, "Failed")]

\* Mutant: aggregateResults without its test for an empty list.
NoValidResultsNever(valid) == FALSE

\* aggregateResults: validResults.length === 0
NoValidResults(valid) == Len(valid) = 0

\* Mutant: no retrieval is counted as failed.
FailedCountNone(partyResults) == 0

\* collectionResults.filter(r => r.status === 'error').length
FailedCount(partyResults) ==
  Len(SelectSeq(partyResults, LAMBDA r : r.status = "error"))

ValidResults(partyResults) ==
  SelectSeq(partyResults, LAMBDA r : r.status = "success")

\* Mutant: the returned computationId is read from this.computationId when
\* the session ends.
ReturnValueOfPointer(x) ==
  IF x.status = "success"
  THEN [status |-> "success", computationId |-> computationId[x.server],
        result |-> x.result, partyResults |-> x.partyResults]
  ELSE [status |-> "error", error |-> x.error]

\* What executeSecureComputation returns.
ReturnValue(x) ==
  IF x.status = "success"
  THEN [status |-> "success", computationId |-> x.cid, result |-> x.result,
        partyResults |-> x.partyResults]
  ELSE [status |-> "error", error |-> x.error]

UpdateSession(x, y) == sessions' = (sessions \ {x}) \cup {y}

\* A share delivery settles (sendShareToParty resolved or rejected: the party
\* transport decides, the simulated one always resolves); the loop of
\* distributeShares goes on to the next party of the array or returns.
DeliverShare(x, ok) ==
  /\ x.pc = "distributing"
  /\ UpdateSession(x, [x EXCEPT
        !.distFailed = IF ok THEN @ ELSE @ + 1,
        !.idx = IF x.idx < Len(x.iter) THEN @ + 1 ELSE 0,
        !.pc = IF x.idx < Len(x.iter) THEN "distributing" ELSE "distributed"])
  /\ burst' = <<>>
  /\ lastCancel' = NoCancel
  /\ UNCHANGED <<managerVars, parties, computationId, results, autonomousMode,
                 taskQueue, isProcessing, drains, nextTaskId, nextCid, calls,
                 rosterOps, dequeued>>

\* Mutant: executeSecureComputation without its waitForComputation step, the
\* results are collected as soon as the shares are out.
CollectAtOnce(x) ==
  [x EXCEPT !.iter = parties[x.server], !.live = TRUE,
            !.idx = IF Len(parties[x.server]) = 0 THEN 0 ELSE 1,
            !.pc = IF Len(parties[x.server]) = 0 THEN "collected"
                   ELSE "collecting",
            !.stages = Append(@, "Collecting")]

\* await this.waitForComputation(): the session waits for the timer.
AwaitComputation(x) ==
  [x EXCEPT !.pc = "waiting", !.stages = Append(@, "AwaitingComputation")]

\* executeSecureComputation resumes after distributeShares: the threshold
\* check against the roster as it is now, then waitForComputation.
CheckDistribution(x) ==
  /\ x.pc = "distributed"
  /\ LET n == Len(parties[x.server])
     IN UpdateSession(x,
          IF DistributionThresholdExceeded(x.distFailed, n)
          THEN [CatchError(x, DistributionError) EXCEPT !.nDist = n]
          ELSE [AwaitComputation(x) EXCEPT !.nDist = n])
  /\ burst' = <<>>
  /\ lastCancel' = NoCancel
  /\ UNCHANGED <<managerVars, parties, computationId, results, autonomousMode,
                 taskQueue, isProcessing, drains, nextTaskId, nextCid, calls,
                 rosterOps, dequeued>>

\* The wait timer fires; collectResults starts its loop over this.parties.
WaitElapsed(x) ==
  /\ x.pc = "waiting"
  /\ LET ps == parties[x.server]
     IN UpdateSession(x, [x EXCEPT
          !.iter = ps, !.live = TRUE,
          !.idx = IF Len(ps) = 0 THEN 0 ELSE 1,
          !.pc = IF Len(ps) = 0 THEN "collected" ELSE "collecting",
          !.stages = Append(@, "Collecting")])
  /\ burst' = <<>>
  /\ lastCancel' = NoCancel
  /\ UNCHANGED <<managerVars, parties, computationId, results, autonomousMode,
                 taskQueue, isProcessing, drains, nextTaskId, nextCid, calls,
                 rosterOps, dequeued>>

\* The values a party's result may take (Math.random() * 100, simulated).
ResultValues == {20, 60}

\* A JavaScript number, as the quotient num / den.
Number(num, den) == [kind |-> "number", num |-> num, den |-> den]

\* What getResultFromParty resolves with: an object whose result field is the
\* party's numeric value and whose computationId is this.computationId as it
\* is when the timer fires.
PartyResult(s, party, value) ==
  [kind |-> "object", computationId |-> computationId[s], partyId |-> party.id,
   result |-> Number(value, 1)]

\* A result retrieval settles: collectResults pushes the resolved object as
\* the result of a 'success' record, or an 'error' record.
CollectResult(x, ok, value) ==
  /\ x.pc = "collecting"
  /\ LET r == IF ok
              THEN [party |-> x.iter[x.idx].id, status |-> "success",
                    result |-> PartyResult(x.server, x.iter[x.idx], value)]
              ELSE [party |-> x.iter[x.idx].id, status |-> "error"]
     IN UpdateSession(x, [x EXCEPT
          !.partyResults = Append(@, r),
          !.idx = IF x.idx < Len(x.iter) THEN @ + 1 ELSE 0,
          !.pc = IF x.idx < Len(x.iter) THEN "collecting" ELSE "collected"])
  /\ burst' = <<>>
  /\ lastCancel' = NoCancel
  /\ UNCHANGED <<managerVars, parties, computationId, results, autonomousMode,
                 taskQueue, isProcessing, drains, nextTaskId, nextCid, calls,
                 rosterOps, dequeued>>

\* JavaScript's acc + v: the sum of two numbers; with an object on either
\* side both are converted to strings and concatenated.
JsAdd(acc, v) ==
  IF acc.kind = "number" /\ v.kind = "number" /\ acc.den = 1 /\ v.den = 1
  THEN Number(acc.num + v.num, 1)
  ELSE [kind |-> "string"]

\* JavaScript's sum / n for n > 0: a number for a number, NaN for a string
\* that does not read as a number ('0[object Object]').
JsDivide(sum, n) ==
  IF sum.kind = "number" THEN Number(sum.num, n) ELSE NaN

\* validResults.reduce((acc, result) => acc + result, 0), from element i on.
RECURSIVE Reduce(_, _, _)
Reduce(values, i, acc) ==
  IF i > Len(values) THEN acc
  ELSE Reduce(values, i + 1, JsAdd(acc, values[i]))

\* aggregateResults on a non-empty list of 'success' records: validResults
\* holds their result fields, which are the objects the parties resolved
\* with, and the aggregate is the reduced sum over the number of them.
AggregateResults(valid) ==
  LET validResults == [i \in DOMAIN valid |-> valid[i].result]
  IN JsDivide(Reduce(validResults, 1, Number(0, 1)), Len(validResults))

\* executeSecureComputation resumes after collectResults: the threshold check,
\* then aggregateResults, then the returned value is built.
CheckCollection(x) ==
  /\ x.pc = "collected"
  /\ LET n == Len(parties[x.server])
         valid == ValidResults(x.partyResults)
     IN IF CollectionThresholdExceeded(FailedCount(x.partyResults), n)
        THEN /\ UpdateSession(x, [CatchError(x, CollectionError)
                                    EXCEPT !.nColl = n])
             /\ UNCHANGED results
        ELSE IF NoValidResults(valid)
        THEN /\ UpdateSession(x, [CatchError([x EXCEPT !.stages =
                                                 Append(@, "Aggregating")],
                                              NoValidResultsError)
                                    EXCEPT !.nColl = n, !.aggregated = TRUE])
             /\ UNCHANGED results
        ELSE /\ UpdateSession(x, [x EXCEPT !.pc = "done", !.status = "success",
                                  !.result = AggregateResults(valid),
                                  !.stages = @ \o <<"Aggregating", "Succeeded">>,
                                  !.nColl = n, !.aggregated = TRUE])
             /\ results' = [results EXCEPT ![x.server] =
                                       AggregateResults(valid)]
  /\ burst' = <<>>
  /\ lastCancel' = NoCancel
  /\ UNCHANGED <<managerVars, parties, computationId, autonomousMode,
                 taskQueue, isProcessing, drains, nextTaskId, nextCid, calls,
                 rosterOps, dequeued>>

\* The promise of a call made by a client or by the Manager resolves.
ReturnToCaller(x) ==
  /\ x.pc = "done"
  /\ x.origin # "drain"
  /\ \A b \in batches : b.cid # x.cid
  /\ sessions' = sessions \ {x}
  /\ burst' = <<>>
  /\ lastCancel' = NoCancel
  /\ UNCHANGED <<managerVars, parties, computationId, results, autonomousMode,
                 taskQueue, isProcessing, drains, nextTaskId, nextCid, calls,
                 rosterOps, dequeued>>

\* A client calls executeSecureComputation on a server object.
ExecuteSecureComputation(s) ==
  /\ calls < MaxCalls
  /\ StartSession(s, "direct")
  /\ calls' = calls + 1
  /\ burst' = <<>>
  /\ lastCancel' = NoCancel
  /\ UNCHANGED <<managerVars, parties, autonomousMode, taskQueue, isProcessing,
                 drains, nextTaskId, rosterOps, dequeued>>

\* ------------------------------------------------------- MPCServer: roster
AddParty(s, party) ==
  /\ rosterOps < MaxRosterOps
  /\ party \notin Range(parties[s])
  /\ parties' = [parties EXCEPT ![s] = Append(@, party)]
  /\ sessions' = {IF x.server = s
                  THEN [x EXCEPT !.iter = IF x.live THEN Append(@, party) ELSE @,
                                 !.rosterChanged = TRUE]
                  ELSE x : x \in sessions}
  /\ rosterOps' = rosterOps + 1
  /\ burst' = <<>>
  /\ lastCancel' = NoCancel
  /\ UNCHANGED <<managerVars, computationId, results, autonomousMode, taskQueue,
                 isProcessing, drains, nextTaskId, nextCid, calls, dequeued>>

RemoveParty(s, partyId) ==
  /\ rosterOps < MaxRosterOps
  /\ parties' = [parties EXCEPT ![s] = SelectSeq(@, LAMBDA p : p.id # partyId)]
  /\ sessions' = {IF x.server = s
                  THEN [x EXCEPT !.live = FALSE, !.rosterChanged = TRUE]
                  ELSE x : x \in sessions}
  /\ rosterOps' = rosterOps + 1
  /\ burst' = <<>>
  /\ lastCancel' = NoCancel
  /\ UNCHANGED <<managerVars, computationId, results, autonomousMode, taskQueue,
                 isProcessing, drains, nextTaskId, nextCid, calls, dequeued>>

\* --------------------------------------------------- MPCServer: task queue
\* Mutant: the scan with <= for <, which puts a new entry ahead of its equals.
InsertPositionBeforeEqual(q, priority) ==
  LET lower == {i \in 1..Len(q) : q[i].priority <= priority}
  IN IF lower = {} THEN Len(q) + 1 ELSE Min(lower)

\* Mutant: no scan, the new entry is always pushed at the end.
InsertPositionPush(q, priority) == Len(q) + 1

\* Mutant: the guard of processTaskQueue without the isProcessing test.
ProcessTaskQueueGuardNoFlag(s, q) ==
  ~(~autonomousMode[s] \/ Len(q) = 0)

\* addTaskToQueue's scan: the index of the first entry whose priority is lower
\* than the new one, or one past the end (push).
InsertPosition(q, priority) ==
  LET lower == {i \in 1..Len(q) : q[i].priority < priority}
  IN IF lower = {} THEN Len(q) + 1 ELSE Min(lower)

\* The entry the drain loop takes: taskQueue.shift().
DequeueIndex(q) == 1

\* Mutant: the drain loop reads the head of the queue and leaves it there.
ShiftedNever(q) == q

\* What taskQueue.shift() leaves in the queue.
Shifted(q) == RemoveAt(q, DequeueIndex(q))

\* processTaskQueue's guard, on the queue q: it returns at once when a drain
\* is running, autonomous mode is off or the queue is empty.
ProcessTaskQueueGuard(s, q) ==
  ~(isProcessing[s] \/ ~autonomousMode[s] \/ Len(q) = 0)

\* One turn of the drain loop up to its await, on the queue q: the entry is
\* shifted and marked, and executeSecureComputation runs to its first await.
\* others are the drain loops that stay as they are.
RunNextTask(s, q, others) ==
  LET entry == [q[DequeueIndex(q)] EXCEPT !.status = "processing"]
  IN /\ taskQueue' = [taskQueue EXCEPT ![s] = Shifted(q)]
     /\ dequeued' = [dequeued EXCEPT ![s] = Append(@, entry)]
     /\ drains' = others \cup {[server |-> s, pc |-> "running",
                                entry |-> entry, cid |-> nextCid]}
     /\ StartSession(s, "drain")

\* processTaskQueue called with the queue being q, up to its first await.
ProcessTaskQueueFrom(s, q) ==
  IF ProcessTaskQueueGuard(s, q)
  THEN /\ isProcessing' = [isProcessing EXCEPT ![s] = TRUE]
       /\ RunNextTask(s, q, drains)
  ELSE /\ taskQueue' = [taskQueue EXCEPT ![s] = q]
       /\ UNCHANGED <<isProcessing, dequeued, drains, sessions, computationId,
                      results, nextCid>>

\* The back-to-back addTaskToQueue calls so far: a burst starts on a server
\* in autonomous mode with an idle drain loop and nothing queued or run yet.
BurstAfter(s, priority) ==
  IF burst # <<>> \/ (/\ autonomousMode[s] /\ ~isProcessing[s]
                      /\ taskQueue[s] = <<>> /\ dequeued[s] = <<>>)
  THEN Append(burst, [server |-> s, priority |-> priority, id |-> nextTaskId])
  ELSE <<>>

AddTaskToQueue(s, priority) ==
  /\ nextTaskId <= MaxTasks
  /\ LET taskEntry == [id |-> nextTaskId, priority |-> priority,
                       status |-> "queued"]
         q == InsertAt(taskQueue[s], InsertPosition(taskQueue[s], priority),
                       taskEntry)
     IN IF autonomousMode[s] /\ ~isProcessing[s]
        THEN ProcessTaskQueueFrom(s, q)
        ELSE /\ taskQueue' = [taskQueue EXCEPT ![s] = q]
             /\ UNCHANGED <<isProcessing, dequeued, drains, sessions,
                            computationId, results, nextCid>>
  /\ nextTaskId' = nextTaskId + 1
  /\ burst' = BurstAfter(s, priority)
  /\ lastCancel' = NoCancel
  /\ UNCHANGED <<managerVars, parties, autonomousMode, calls, rosterOps>>

\* A client calls processTaskQueue; the call that returns at its guard
\* changes nothing.
ProcessTaskQueue(s) ==
  /\ ProcessTaskQueueGuard(s, taskQueue[s])
  /\ ProcessTaskQueueFrom(s, taskQueue[s])
  /\ burst' = <<>>
  /\ lastCancel' = NoCancel
  /\ UNCHANGED <<managerVars, parties, autonomousMode, nextTaskId, calls,
                 rosterOps>>

\* Mutant: the drain loop marks the entry by the status of the result.
TaskOutcomeOfResult(x) ==
  IF x.status = "success" THEN "completed" ELSE "failed"

\* The status the drain loop gives the entry when the awaited call settles:
\* 'completed' after the await returned, 'failed' in the catch block, which
\* only an Error thrown by executeSecureComputation reaches.
TaskOutcome(x) ==
  IF x.status = "raised" THEN "failed" ELSE "completed"

\* The awaited executeSecureComputation of drain loop d settled: the entry
\* is completed, or failed, and the loop pauses (the 100 ms timer).
DrainTaskCompleted(d) ==
  /\ d.pc = "running"
  /\ \E x \in sessions :
       /\ x.cid = d.cid
       /\ x.pc = "done"
       /\ sessions' = sessions \ {x}
       /\ drains' = (drains \ {d}) \cup
            {[d EXCEPT !.pc = "paused",
                       !.entry =
                         IF TaskOutcome(x) = "completed"
                         THEN [id |-> d.entry.id,
                               priority |-> d.entry.priority,
                               status |-> "completed",
                               result |-> ReturnValue(x)]
                         ELSE [id |-> d.entry.id,
                               priority |-> d.entry.priority,
                               status |-> "failed", error |-> x.error]]}
  /\ burst' = <<>>
  /\ lastCancel' = NoCancel
  /\ UNCHANGED <<managerVars, parties, computationId, results, autonomousMode,
                 taskQueue, isProcessing, nextTaskId, nextCid, calls, rosterOps,
                 dequeued>>

\* Mutant: the loop goes on as long as an entry is queued.
DrainLoopTestQueueOnly(s) == Len(taskQueue[s]) > 0

\* The test of the drain loop's while.
DrainLoopTest(s) == Len(taskQueue[s]) > 0 /\ autonomousMode[s]

\* The pause of drain loop d is over: the loop takes the next entry, or ends
\* and its finally block clears isProcessing.
DrainResume(d) ==
  /\ d.pc = "paused"
  /\ IF DrainLoopTest(d.server)
     THEN /\ RunNextTask(d.server, taskQueue[d.server], drains \ {d})
          /\ UNCHANGED isProcessing
     ELSE /\ isProcessing' = [isProcessing EXCEPT ![d.server] = FALSE]
          /\ drains' = drains \ {d}
          /\ UNCHANGED <<taskQueue, dequeued, sessions, computationId, results,
                         nextCid>>
  /\ burst' = <<>>
  /\ lastCancel' = NoCancel
  /\ UNCHANGED <<managerVars, parties, autonomousMode, nextTaskId, calls,
                 rosterOps>>

EnableAutonomousMode(s) ==
  /\ autonomousMode' = [autonomousMode EXCEPT ![s] = TRUE]
  /\ burst' = <<>>
  /\ lastCancel' = NoCancel
  /\ UNCHANGED <<managerVars, parties, computationId, results, taskQueue,
                 isProcessing, drains, sessions, nextTaskId, nextCid, calls,
                 rosterOps, dequeued>>

DisableAutonomousMode(s) ==
  /\ autonomousMode' = [autonomousMode EXCEPT ![s] = FALSE]
  /\ burst' = <<>>
  /\ lastCancel' = NoCancel
  /\ UNCHANGED <<managerVars, parties, computationId, results, taskQueue,
                 isProcessing, drains, sessions, nextTaskId, nextCid, calls,
                 rosterOps, dequeued>>

\* Mutant: findIndex reports the head of the queue for every id it finds.
FindIndexHead(q, taskId) ==
  IF \E i \in DOMAIN q : q[i].id = taskId THEN 1 ELSE 0

\* taskQueue.findIndex(task => task.id === taskId), from 1; 0 for -1.
FindIndex(q, taskId) ==
  IF \E i \in DOMAIN q : q[i].id = taskId
  THEN Min({i \in DOMAIN q : q[i].id = taskId})
  ELSE 0

\* cancelQueuedTask: the entry with the id is spliced out of the queue and
\* returned; for an id that is not in the queue null is returned.
CancelQueuedTask(s, taskId) ==
  /\ LET index == FindIndex(taskQueue[s], taskId)
     IN IF index # 0
        THEN /\ taskQueue' = [taskQueue EXCEPT ![s] = RemoveAt(@, index)]
             /\ lastCancel' = [server |-> s, taskId |-> taskId,
                               returned |-> taskQueue[s][index]]
        ELSE /\ lastCancel' = [server |-> s, taskId |-> taskId,
                               returned |-> NoTask]
             /\ UNCHANGED taskQueue
  /\ burst' = <<>>
  /\ UNCHANGED <<managerVars, parties, computationId, results, autonomousMode,
                 isProcessing, drains, sessions, nextTaskId, nextCid, calls,
                 rosterOps, dequeued>>

ClearTaskQueue(s) ==
  /\ taskQueue' = [taskQueue EXCEPT ![s] = <<>>]
  /\ burst' = <<>>
  /\ lastCancel' = NoCancel
  /\ UNCHANGED <<managerVars, parties, computationId, results, autonomousMode,
                 isProcessing, drains, sessions, nextTaskId, nextCid, calls,
                 rosterOps, dequeued>>

\* ------------------------------------------------------------- MPCManager
\* executeTaskOnServer up to its first await: the lookup, the validation with
\* its audit entry, and either the policy error or the session's start.
ExecuteTaskOnServer(name, dataSensitivity) ==
  /\ calls < MaxCalls
  /\ calls' = calls + 1
  /\ burst' = <<>>
  /\ IF name \notin Registered
     THEN /\ lastCall' = [seq |-> calls + 1, op |-> "executeTaskOnServer",
                          server |-> name, dataSensitivity |-> dataSensitivity,
                          validated |-> FALSE, operation |-> ManagerOperation,
                          parties |-> <<>>, returned |-> <<>>,
                          raised |-> NotFoundError(name), logged |-> NoId,
                          cid |-> NoId]
          /\ UNCHANGED <<auditLogs, nextAuditId, sessions, computationId,
                         results, nextCid>>
     ELSE LET res == ValidationResults(securityPolicies, ManagerOperation,
                                       parties[name], dataSensitivity)
              failed == FailedValidations(res)
          IN /\ auditLogs' = LogValidation(auditLogs, nextAuditId,
                   ManagerOperation, parties[name], dataSensitivity)
             /\ nextAuditId' = nextAuditId + 1
             /\ lastCall' = [seq |-> calls + 1, op |-> "executeTaskOnServer",
                             server |-> name,
                             dataSensitivity |-> dataSensitivity,
                             validated |-> TRUE, operation |-> ManagerOperation,
                             parties |-> parties[name], returned |-> res,
                             raised |-> IF Len(failed) > 0
                                        THEN SecurityValidationError(failed)
                                        ELSE NoError,
                             logged |-> nextAuditId,
                             cid |-> IF Len(failed) > 0 THEN NoId ELSE nextCid]
             /\ IF Len(failed) > 0
                THEN UNCHANGED <<sessions, computationId, results, nextCid>>
                ELSE StartSession(name, "manager")
  /\ lastCancel' = NoCancel
  /\ UNCHANGED <<servers, securityPolicies, batches, parties, autonomousMode,
                 taskQueue, isProcessing, drains, nextTaskId, rosterOps,
                 dequeued>>

\* Mutant: executeTask without its per-server catch, the first Error ends
\* the loop over the servers.
NextServerNone(i) == Len(servers) + 1

\* The catch block of executeTask's loop body pushes the error record and the
\* for-of loop goes on with the server after servers[i].
NextServer(i) == i + 1

\* executeTask's loop from servers[i] on, up to its next await or its end:
\* each server is validated (one audit entry each); a blocked one gets its
\* error record and the loop goes on, the first one that passes stops the
\* segment at the await of its executeSecureComputation. next is the index of
\* the awaited server, or one past the last when the loop has ended. audits
\* is history: the ids of the audit entries of the validations, in order.
RECURSIVE RunBatch(_, _, _, _, _, _, _)
RunBatch(i, log, id, recs, validated, audits, dataSensitivity) ==
  IF i > Len(servers)
  THEN [next |-> i, log |-> log, id |-> id, recs |-> recs,
        validated |-> validated, audits |-> audits]
  ELSE LET s == servers[i]
           res == ValidationResults(securityPolicies, ManagerOperation,
                                    parties[s], dataSensitivity)
           failed == FailedValidations(res)
           logged == LogValidation(log, id, ManagerOperation, parties[s],
                                   dataSensitivity)
       IN IF Len(failed) > 0
          THEN RunBatch(NextServer(i), logged, id + 1,
                        Append(recs, [server |-> s, status |-> "error",
                                      error |-> SecurityValidationError(failed)]),
                        Append(validated, s), Append(audits, id),
                        dataSensitivity)
          ELSE [next |-> i, log |-> logged, id |-> id + 1, recs |-> recs,
                validated |-> Append(validated, s),
                audits |-> Append(audits, id)]

\* The state an executeTask invocation b is left in by the segment r: awaiting
\* the session just started on servers[r.next], or returned. validated is
\* history: the servers validateOperation was called for.
BatchAfter(b, r) ==
  [b EXCEPT !.pc = IF r.next <= Len(servers) THEN "awaiting" ELSE "returned",
            !.next = r.next,
            !.cid = IF r.next <= Len(servers) THEN nextCid ELSE NoId,
            !.results = r.recs, !.validated = r.validated,
            !.audits = r.audits]

\* The effect of the segment r of invocation b on everything but lastCall and
\* calls; others are the sessions that stay in flight.
RunBatchSegment(b, r, others) ==
  /\ auditLogs' = r.log
  /\ nextAuditId' = r.id
  /\ batches' = (batches \ {b}) \cup {BatchAfter(b, r)}
  /\ IF r.next <= Len(servers)
     THEN StartSessionBeside(others, servers[r.next], "manager")
     ELSE /\ sessions' = others
          /\ UNCHANGED <<computationId, results, nextCid>>
  /\ burst' = <<>>
  /\ lastCancel' = NoCancel
  /\ UNCHANGED <<servers, securityPolicies, parties, autonomousMode, taskQueue,
                 isProcessing, drains, nextTaskId, rosterOps, dequeued>>

\* A client calls executeTask: the loop runs up to its first await.
ExecuteTask(dataSensitivity) ==
  /\ calls < MaxCalls
  /\ calls' = calls + 1
  /\ lastCall' = [seq |-> calls + 1, op |-> "executeTask",
                  dataSensitivity |-> dataSensitivity]
  /\ LET b == [seq |-> calls + 1, dataSensitivity |-> dataSensitivity,
               pc |-> "awaiting", next |-> 1, cid |-> NoId, results |-> <<>>,
               validated |-> <<>>, audits |-> <<>>]
     IN RunBatchSegment(b, RunBatch(1, auditLogs, nextAuditId, <<>>, <<>>,
                                    <<>>, dataSensitivity), sessions)

\* Mutant: the record takes the status of the value the session returned.
RecordStatusOfResult(result) == result.status

\* The status of the record pushed after the await of
\* executeSecureComputation returned: the literal 'success'.
RecordStatus(result) == "success"

\* The executeSecureComputation awaited by invocation b returned: its value
\* is pushed as a 'success' record and the loop goes on with the next server.
ExecuteTaskResumes(b) ==
  /\ b.pc = "awaiting"
  /\ \E x \in sessions :
       /\ x.cid = b.cid
       /\ x.pc = "done"
       /\ LET recs == Append(b.results,
                             [server |-> servers[b.next],
                              status |-> RecordStatus(ReturnValue(x)),
                              result |-> ReturnValue(x)])
          IN RunBatchSegment(b, RunBatch(b.next + 1, auditLogs, nextAuditId,
                                         recs, b.validated, b.audits,
                                         b.dataSensitivity),
                             sessions \ {x})
  /\ UNCHANGED <<calls, lastCall>>

\* The promise of executeTask resolves with the records.
ExecuteTaskReturns(b) ==
  /\ b.pc = "returned"
  /\ batches' = batches \ {b}
  /\ burst' = <<>>
  /\ lastCancel' = NoCancel
  /\ UNCHANGED <<servers, securityPolicies, auditLogs, nextAuditId, lastCall,
                 serverVars, calls>>

\* Mutant: cancelComputation leaves the stored aggregate alone.
StoredResultsKept(name) == results

\* server.results = null
StoredResultsCleared(name) == [results EXCEPT ![name] = NoResult]

\* cancelComputation: the lookup by name, then the server's session pointer
\* and stored aggregate are cleared; the computationId argument is only
\* echoed. Nothing is sent to the parties or to the running invocation.
CancelComputation(name, cid) ==
  /\ calls < MaxCalls
  /\ calls' = calls + 1
  /\ burst' = <<>>
  /\ IF name \notin Registered
     THEN /\ lastCall' = [seq |-> calls + 1, op |-> "cancelComputation",
                          server |-> name, computationId |-> cid,
                          returned |-> [status |-> "none"],
                          raised |-> NotFoundError(name)]
          /\ UNCHANGED <<computationId, results>>
     ELSE /\ computationId' = [computationId EXCEPT ![name] = NoId]
          /\ results' = StoredResultsCleared(name)
          /\ lastCall' = [seq |-> calls + 1, op |-> "cancelComputation",
                          server |-> name, computationId |-> cid,
                          returned |-> [status |-> "cancelled",
                                        server |-> name,
                                        computationId |-> cid],
                          raised |-> NoError]
  /\ lastCancel' = NoCancel
  /\ UNCHANGED <<servers, securityPolicies, auditLogs, nextAuditId, batches,
                 parties, autonomousMode, taskQueue, isProcessing, drains,
                 sessions, nextTaskId, nextCid, rosterOps, dequeued>>

\* ------------------------------------------------------------ specifications
\* The state after construction: the Manager with the servers registered, each
\* with its roster, and the Governance object with its default policies.
InitServers(registered, roster) ==
  /\ servers = registered
  /\ securityPolicies = DefaultPolicies
  /\ auditLogs = <<>>
  /\ parties = roster
  /\ computationId = [s \in ServerNames |-> NoId]
  /\ results = [s \in ServerNames |-> NoResult]
  /\ autonomousMode = [s \in ServerNames |-> FALSE]
  /\ taskQueue = [s \in ServerNames |-> <<>>]
  /\ isProcessing = [s \in ServerNames |-> FALSE]
  /\ drains = {}
  /\ sessions = {}
  /\ nextTaskId = 1
  /\ nextCid = 1
  /\ calls = 0
  /\ rosterOps = 0
  /\ dequeued = [s \in ServerNames |-> <<>>]
  /\ burst = <<>>
  /\ nextAuditId = 1
  /\ lastCall = NoCall
  /\ batches = {}
  /\ lastCancel = NoCancel

InitWith(roster) ==
  InitServers(<<"alpha">>,
              [s \in ServerNames |-> IF s = "alpha" THEN roster ELSE <<>>])

\* The protocol steps of the sessions in flight, the parties reporting values
\* of the set values.
SessionStepOn(values) ==
  \E x \in sessions :
    \/ \E ok \in BOOLEAN : DeliverShare(x, ok)
    \/ CheckDistribution(x)
    \/ WaitElapsed(x)
    \/ \E ok \in BOOLEAN, value \in values : CollectResult(x, ok, value)
    \/ CheckCollection(x)

\* The same with every party reporting one and the same value.
SessionStep == SessionStepOn({Min(ResultValues)})

\* The steps of the drain loops past their guard.
DrainStep ==
  \E d \in drains :
    \/ DrainTaskCompleted(d)
    \/ DrainResume(d)

\* The task-queue calls of a client.
QueueCall ==
  \E s \in Registered :
    \/ \E p \in Priorities : AddTaskToQueue(s, p)
    \/ ProcessTaskQueue(s)
    \/ EnableAutonomousMode(s)
    \/ DisableAutonomousMode(s)
    \/ \E id \in 1..MaxTasks : CancelQueuedTask(s, id)
    \/ ClearTaskQueue(s)

RosterCall ==
  \E s \in Registered :
    \/ \E party \in PartyPool : AddParty(s, party)
    \/ \E party \in PartyPool : RemoveParty(s, party.id)

\* The task queue and its drain loop on a server of one party.
InitQueue == InitWith(<<Party("p1", TRUE)>>)

NextQueue ==
  \/ SessionStep
  \/ DrainStep
  \/ QueueCall

SpecQueue == InitQueue /\ [][NextQueue]_vars

\* The same without cancelQueuedTask and clearTaskQueue, under the fairness
\* of the event loop: timers fire and promises resolve, so every pending
\* continuation of a session or of a drain loop eventually runs. Client calls
\* are under no obligation.
NextAutonomous ==
  \/ SessionStep
  \/ DrainStep
  \/ \E s \in Registered, p \in Priorities : AddTaskToQueue(s, p)
  \/ \E s \in Registered : ProcessTaskQueue(s)
  \/ \E s \in Registered : EnableAutonomousMode(s)
  \/ \E s \in Registered : DisableAutonomousMode(s)

FairSpecQueue ==
  /\ InitQueue
  /\ [][NextAutonomous]_vars
  /\ WF_vars(SessionStep)
  /\ WF_vars(DrainStep)

\* One session at a time (the client awaits each call), on every roster, with
\* roster changes while the session runs.
InitSession == \E roster \in Rosters : InitWith(roster)

NextSession ==
  \/ SessionStep
  \/ \E x \in sessions : ReturnToCaller(x)
  \/ \E s \in Registered : sessions = {} /\ ExecuteSecureComputation(s)
  \/ RosterCall

SpecSession == InitSession /\ [][NextSession]_vars

\* The Manager with the party transport as shipped (every delivery and every
\* retrieval resolves): a client makes one executeTaskOnServer call at a time,
\* while the roster and the policies change under the running session.
GovernedRosters == {<<>>,
                    <<Party("u1", FALSE)>>,
                    <<Party("p1", TRUE), Party("p2", TRUE)>>}

InitManager == \E roster \in GovernedRosters : InitWith(roster)

SimulatedSessionStep ==
  \E x \in sessions :
    \/ DeliverShare(x, TRUE)
    \/ CheckDistribution(x)
    \/ WaitElapsed(x)
    \/ CollectResult(x, TRUE, Min(ResultValues))
    \/ CheckCollection(x)

NextManager ==
  \/ SimulatedSessionStep
  \/ \E x \in sessions : ReturnToCaller(x)
  \/ \E name \in ServerNames, sens \in Sensitivities :
       sessions = {} /\ ExecuteTaskOnServer(name, sens)
  \/ RosterCall
  \/ \E policyId \in PolicyNames : RemovePolicy(policyId)

SpecManager == InitManager /\ [][NextManager]_vars

\* Several callers: executeTaskOnServer calls that overlap each other, with an
\* unauthenticated party joining, a party leaving and a policy being removed
\* at any point in between.
InitCallers == InitWith(<<Party("p1", TRUE), Party("p2", TRUE)>>)

NextCallers ==
  \/ SimulatedSessionStep
  \/ \E x \in sessions : ReturnToCaller(x)
  \/ \E s \in Registered, sens \in {"low", "high"} : ExecuteTaskOnServer(s, sens)
  \/ \E s \in Registered : AddParty(s, Party("u1", FALSE))
  \/ \E s \in Registered : RemoveParty(s, "p1")
  \/ RemovePolicy("high-sensitivity")

SpecCallers == InitCallers /\ [][NextCallers]_vars

\* executeTask over two registered servers: a client makes one call at a time,
\* deliveries and retrievals may fail, and the rosters change while the loop
\* is at an await.
BatchRosters == {<<>>, <<Party("p1", TRUE), Party("p2", TRUE)>>}

InitBatch ==
  \E ra \in BatchRosters, rb \in BatchRosters :
    InitServers(<<"alpha", "beta">>,
                [s \in ServerNames |-> IF s = "alpha" THEN ra ELSE rb])

NextBatch ==
  \/ SessionStep
  \/ \E sens \in {"low", "medium"} : batches = {} /\ ExecuteTask(sens)
  \/ \E b \in batches : ExecuteTaskResumes(b)
  \/ \E b \in batches : ExecuteTaskReturns(b)
  \/ \E s \in Registered : AddParty(s, Party("p3", TRUE))
  \/ \E s \in Registered : RemoveParty(s, "p1")

SpecBatch == InitBatch /\ [][NextBatch]_vars

\* cancelComputation next to the sessions of direct callers, which may
\* overlap: a client cancels by any server name and any computation id, at
\* any point of a session or between sessions.
InitCancel == InitWith(<<Party("p1", TRUE), Party("p2", TRUE)>>)

NextCancel ==
  \/ SessionStep
  \/ \E x \in sessions : ReturnToCaller(x)
  \/ \E s \in Registered : ExecuteSecureComputation(s)
  \/ \E name \in ServerNames, cid \in 0..nextCid : CancelComputation(name, cid)

SpecCancel == InitCancel /\ [][NextCancel]_vars

\* One session at a time, cancelled by a client at any point, under the
\* fairness of the event loop: the pending continuation of a session
\* eventually runs. Client calls are under no obligation.
NextDetach ==
  \/ SessionStep
  \/ \E x \in sessions : ReturnToCaller(x)
  \/ \E s \in Registered : sessions = {} /\ ExecuteSecureComputation(s)
  \/ \E name \in ServerNames : CancelComputation(name, computationId[name])

FairSpecDetach ==
  /\ InitCancel
  /\ [][NextDetach]_vars
  /\ WF_vars(SessionStep)

\* One session at a time on a roster that stays as it is, the parties
\* reporting different values.
NextAggregate ==
  \/ SessionStepOn(ResultValues)
  \/ \E x \in sessions : ReturnToCaller(x)
  \/ \E s \in Registered : sessions = {} /\ ExecuteSecureComputation(s)

SpecAggregate == InitSession /\ [][NextAggregate]_vars

\* The Governance object on its own: validations and policy changes made by
\* clients, compliance checks and security reports.
InitGovernance == InitWith(<<>>)

NextGovernance ==
  \/ \E operation \in Operations, ps \in ValidatedRosters,
        sens \in Sensitivities : ValidateOperation(operation, ps, sens)
  \/ \E policy \in DefinedPolicies : DefineSecurityPolicy(policy)
  \/ \E policyId \in PolicyNames, updates \in PolicyUpdates :
       UpdatePolicy(policyId, updates)
  \/ \E policyId \in PolicyNames : RemovePolicy(policyId)
  \/ \E standard \in Standards : CheckCompliance(standard)
  \/ GenerateSecurityReport

SpecGovernance == InitGovernance /\ [][NextGovernance]_vars

\* The audit log after n compliance checks made by security reports.
FilledLog(n) ==
  [i \in 1..n |->
     AuditEntry(i, "compliance_check",
                ComplianceReport(
                  ComplianceStandards[((i - 1) % Len(ComplianceStandards)) + 1]))]

\* The Governance object of a Manager that has produced 199 or 200 security
\* reports: the audit log is one report short of its cap, or at it.
InitAudit ==
  /\ servers = <<"alpha">>
  /\ securityPolicies = DefaultPolicies
  /\ \E n \in {AuditCap - Len(ComplianceStandards), AuditCap} :
       /\ auditLogs = FilledLog(n)
       /\ nextAuditId = n + 1
  /\ parties = [s \in ServerNames |-> <<>>]
  /\ computationId = [s \in ServerNames |-> NoId]
  /\ results = [s \in ServerNames |-> NoResult]
  /\ autonomousMode = [s \in ServerNames |-> FALSE]
  /\ taskQueue = [s \in ServerNames |-> <<>>]
  /\ isProcessing = [s \in ServerNames |-> FALSE]
  /\ drains = {}
  /\ sessions = {}
  /\ nextTaskId = 1
  /\ nextCid = 1
  /\ calls = 0
  /\ rosterOps = 0
  /\ dequeued = [s \in ServerNames |-> <<>>]
  /\ burst = <<>>
  /\ lastCall = NoCall
  /\ batches = {}
  /\ lastCancel = NoCancel

NextAudit ==
  \/ \E ps \in {<<Party("u1", FALSE)>>, <<Party("p1", TRUE), Party("p2", TRUE)>>} :
       ValidateOperation(ManagerOperation, ps, "medium")
  \/ \E policyId \in {"default", "custom"} :
       UpdatePolicy(policyId, [minimumParties |-> 1])
  \/ \E policyId \in {"default", "custom"} : RemovePolicy(policyId)
  \/ \E standard \in Standards : CheckCompliance(standard)
  \/ GenerateSecurityReport

SpecAudit == InitAudit /\ [][NextAudit]_vars

\* The audit log after k validations of a single unauthenticated party under
\* the default policies, followed by compliance checks up to n entries.
BlockedThenFilledLog(k, n) ==
  [i \in 1..n |->
     IF i <= k
     THEN ValidationEntry(i, ManagerOperation, <<Party("u1", FALSE)>>,
            "medium",
            ValidationResults(DefaultPolicies, ManagerOperation,
                              <<Party("u1", FALSE)>>, "medium"))
     ELSE FilledLog(n)[i]]

\* The Governance object after clients had operations blocked, once or twelve
\* times (two more than a report lists), and then kept generating reports
\* until the log was one report short of its cap, or at it.
InitEviction ==
  /\ servers = <<"alpha">>
  /\ securityPolicies = DefaultPolicies
  /\ \E k \in {1, 12},
        n \in {AuditCap - Len(ComplianceStandards), AuditCap} :
       /\ auditLogs = BlockedThenFilledLog(k, n)
       /\ nextAuditId = n + 1
  /\ parties = [s \in ServerNames |-> <<>>]
  /\ computationId = [s \in ServerNames |-> NoId]
  /\ results = [s \in ServerNames |-> NoResult]
  /\ autonomousMode = [s \in ServerNames |-> FALSE]
  /\ taskQueue = [s \in ServerNames |-> <<>>]
  /\ isProcessing = [s \in ServerNames |-> FALSE]
  /\ drains = {}
  /\ sessions = {}
  /\ nextTaskId = 1
  /\ nextCid = 1
  /\ calls = 0
  /\ rosterOps = 0
  /\ dequeued = [s \in ServerNames |-> <<>>]
  /\ burst = <<>>
  /\ lastCall = NoCall
  /\ batches = {}
  /\ lastCancel = NoCancel

SpecEviction == InitEviction /\ [][NextAudit]_vars

\* The audit log after the first n default policies were removed.
RemovalLog(n) ==
  [i \in 1..n |->
     AuditEntry(i, "policy_remove", [policyId |-> DefaultPolicies[i].id])]

\* The rosters of a server that no policy would let through.
UngovernedRosters == {<<>>,
                      <<Party("u1", FALSE)>>,
                      <<Party("p1", TRUE), Party("u1", FALSE)>>}

\* A Manager whose clients have removed two or all three of the default
\* policies, in the order they were defined, and nothing else.
InitUngoverned ==
  /\ servers = <<"alpha">>
  /\ \E n \in {Len(DefaultPolicies) - 1, Len(DefaultPolicies)} :
       /\ securityPolicies = SubSeq(DefaultPolicies, n + 1, Len(DefaultPolicies))
       /\ auditLogs = RemovalLog(n)
       /\ nextAuditId = n + 1
  /\ \E roster \in UngovernedRosters :
       parties = [s \in ServerNames |-> IF s = "alpha" THEN roster ELSE <<>>]
  /\ computationId = [s \in ServerNames |-> NoId]
  /\ results = [s \in ServerNames |-> NoResult]
  /\ autonomousMode = [s \in ServerNames |-> FALSE]
  /\ taskQueue = [s \in ServerNames |-> <<>>]
  /\ isProcessing = [s \in ServerNames |-> FALSE]
  /\ drains = {}
  /\ sessions = {}
  /\ nextTaskId = 1
  /\ nextCid = 1
  /\ calls = 0
  /\ rosterOps = 0
  /\ dequeued = [s \in ServerNames |-> <<>>]
  /\ burst = <<>>
  /\ lastCall = NoCall
  /\ batches = {}
  /\ lastCancel = NoCancel

NextUngoverned ==
  \/ SimulatedSessionStep
  \/ \E x \in sessions : ReturnToCaller(x)
  \/ \E name \in ServerNames, sens \in Sensitivities :
       sessions = {} /\ ExecuteTaskOnServer(name, sens)
  \/ \E policyId \in PolicyNames : RemovePolicy(policyId)

SpecUngoverned == InitUngoverned /\ [][NextUngoverned]_vars

\* The Manager's clients, direct calls and the autonomous drain loop side by
\* side on one server; tasks are enqueued with the default priority.
DefaultPriority == 0

\* The drain loop with autonomous mode switched on and off under it, every
\* task enqueued with the default priority, under the fairness of the event
\* loop.
NextDrain ==
  \/ SessionStep
  \/ DrainStep
  \/ \E s \in Registered : AddTaskToQueue(s, DefaultPriority)
  \/ \E s \in Registered : ProcessTaskQueue(s)
  \/ \E s \in Registered : EnableAutonomousMode(s)
  \/ \E s \in Registered : DisableAutonomousMode(s)

FairSpecDrain ==
  /\ InitQueue
  /\ [][NextDrain]_vars
  /\ WF_vars(SessionStep)
  /\ WF_vars(DrainStep)

ManagerRosters == {<<Party("u1", FALSE)>>,
                   <<Party("p1", TRUE), Party("p2", TRUE)>>}

Init == \E roster \in ManagerRosters : InitWith(roster)

\* The tasks enqueued and the calls made so far stay below MaxWork.
WorkLeft == (nextTaskId - 1) + calls < MaxWork

Next ==
  \/ SessionStep
  \/ DrainStep
  \/ \E x \in sessions : ReturnToCaller(x)
  \/ \E s \in Registered : WorkLeft /\ ExecuteSecureComputation(s)
  \/ \E name \in ServerNames, sens \in Sensitivities :
       WorkLeft /\ ExecuteTaskOnServer(name, sens)
  \/ \E s \in Registered : WorkLeft /\ AddTaskToQueue(s, DefaultPriority)
  \/ \E s \in Registered : EnableAutonomousMode(s)
  \/ \E s \in Registered : DisableAutonomousMode(s)

Spec == Init /\ [][Next]_vars

\* ------------------------------------------------------------------ claims
SessionsOf(s) == {x \in sessions : x.server = s}

DrainsOf(s) == {d \in drains : d.server = s}

Priority(q) == [i \in DOMAIN q |-> q[i].priority]

\* The position of task id in the dequeue history of s (0: not dequeued).
DequeuedAt(s, id) ==
  IF \E i \in DOMAIN dequeued[s] : dequeued[s][i].id = id
  THEN CHOOSE i \in DOMAIN dequeued[s] : dequeued[s][i].id = id
  ELSE 0

\* C1: every session started through the Manager or by the drain loop starts
\* only after a validateOperation call on the server's roster (which leaves an
\* operation_validation audit entry) returned no result with passed = false.
C1_PolicyBeforeComputation ==
  \A x \in sessions :
    x.origin \in {"manager", "drain"} =>
      \E i \in DOMAIN auditLogs :
        /\ auditLogs[i].eventType = "operation_validation"
        /\ auditLogs[i].details.parties = PartyIds(x.startRoster)
        /\ \A j \in DOMAIN auditLogs[i].details.results :
             auditLogs[i].details.results[j].passed

\* C2: a server never has two sessions that are both between their start and
\* their terminal state.
C2_OneSessionInFlight ==
  \A s \in ServerNames :
    Cardinality({x \in SessionsOf(s) : InFlight(x)}) <= 1

\* C3: at most one drain loop is past the guard of processTaskQueue on a
\* server, and isProcessing is set exactly while one is.
C3_SingleDrainLoop ==
  \A s \in ServerNames :
    /\ Cardinality(DrainsOf(s)) <= 1
    /\ isProcessing[s] <=> DrainsOf(s) # {}

\* A task enqueued in autonomous mode while the drain loop runs another one:
\* it outranks the running task, so it was not queued when that one was taken.
C3_EnqueuedWhileDraining ==
  \E d \in drains :
    /\ d.pc = "running"
    /\ autonomousMode[d.server]
    /\ \E i \in DOMAIN taskQueue[d.server] :
         taskQueue[d.server][i].priority > d.entry.priority

\* C4: of two tasks enqueued back to back on a server in autonomous mode, the
\* earlier one with the lower priority p2 is never dequeued ahead of the later
\* one with the higher priority p1.
C4_HigherPriorityDequeuedFirst ==
  \A i, j \in DOMAIN burst :
    (/\ i < j
     /\ burst[i].server = burst[j].server
     /\ burst[j].priority > burst[i].priority
     /\ DequeuedAt(burst[i].server, burst[i].id) > 0)
    => /\ DequeuedAt(burst[j].server, burst[j].id) > 0
       /\ DequeuedAt(burst[j].server, burst[j].id)
            < DequeuedAt(burst[i].server, burst[i].id)

\* C5: after priorities 1, 5, 3 were enqueued back to back on a server in
\* autonomous mode with an idle drain loop, the tasks dequeued so far are the
\* beginning of the order 5, 3, 1.
C5_DrainOrder531 ==
  \A s \in ServerNames :
    burst = << [server |-> s, priority |-> 1, id |-> 1],
               [server |-> s, priority |-> 5, id |-> 2],
               [server |-> s, priority |-> 3, id |-> 3] >>
    => IsPrefix(Priority(dequeued[s]), <<5, 3, 1>>)

\* C6: entries of equal priority are queued in enqueue order, and none is
\* dequeued while an earlier one of the same priority is still queued.
C6_EqualPriorityFifo ==
  \A s \in ServerNames :
    /\ \A i, j \in DOMAIN taskQueue[s] :
         (i < j /\ taskQueue[s][i].priority = taskQueue[s][j].priority)
         => taskQueue[s][i].id < taskQueue[s][j].id
    /\ \A i \in DOMAIN dequeued[s], j \in DOMAIN taskQueue[s] :
         dequeued[s][i].priority = taskQueue[s][j].priority
         => dequeued[s][i].id < taskQueue[s][j].id
    /\ \A i, j \in DOMAIN dequeued[s] :
         (i < j /\ dequeued[s][i].priority = dequeued[s][j].priority)
         => dequeued[s][i].id < dequeued[s][j].id

\* A new entry went in behind its equal and ahead of an older, lower entry.
C6_InsertedBehindEqual ==
  \E s \in ServerNames :
    /\ Len(taskQueue[s]) >= 3
    /\ taskQueue[s][1].priority = taskQueue[s][2].priority
    /\ taskQueue[s][1].id < taskQueue[s][2].id
    /\ taskQueue[s][3].priority < taskQueue[s][2].priority
    /\ taskQueue[s][3].id < taskQueue[s][2].id

\* C7: the task queue is sorted by priority, highest first.
C7_QueueSorted ==
  \A s \in ServerNames :
    \A i, j \in DOMAIN taskQueue[s] :
      i < j => taskQueue[s][i].priority >= taskQueue[s][j].priority

\* A later, higher entry stands ahead of an older one, after an entry left
\* the queue (taken by the drain loop, cancelled or cleared).
C7_SortedAfterInsertAndRemoval ==
  \E s \in ServerNames :
    /\ Len(taskQueue[s]) >= 2
    /\ taskQueue[s][1].priority > taskQueue[s][2].priority
    /\ taskQueue[s][1].id > taskQueue[s][2].id
    /\ Len(taskQueue[s]) < nextTaskId - 1

\* C8: in autonomous mode a non-empty queue is eventually drained (or the
\* mode is switched off, or the queue emptied by cancel or clear).
C8_QueuedTasksEventuallyDrained ==
  \A s \in ServerNames :
    [](autonomousMode[s] /\ taskQueue[s] # <<>>
        => <>(taskQueue[s] = <<>> \/ ~autonomousMode[s]))

\* C9: the distribution check, made against n parties with f failed
\* deliveries, ends the session with the distribution error exactly when
\* 2f > n, and then no result was requested; otherwise the session goes on.
\* n is the roster's size, which is the start roster's unless it was changed.
C9_DistributionThreshold ==
  \A x \in sessions :
    /\ x.pc \in {"distributing", "distributed"}
         => x.nDist = -1 /\ x.partyResults = <<>>
    /\ x.pc \notin {"distributing", "distributed"} => x.nDist >= 0
    /\ x.nDist >= 0 =>
         /\ (2 * x.distFailed > x.nDist)
              <=> (x.pc = "done" /\ x.error = DistributionError)
         /\ (2 * x.distFailed > x.nDist)
              => /\ x.status = "error"
                 /\ x.partyResults = <<>>
                 /\ x.nColl = -1
                 /\ ~x.aggregated
         /\ ~x.rosterChanged => x.nDist = Len(x.startRoster)

\* Exactly half of an even roster failed and the session is collecting.
C9_HalfFailedProceeds ==
  \E x \in sessions :
    /\ x.pc = "collecting"
    /\ ~x.rosterChanged
    /\ x.nDist = 4
    /\ x.distFailed = 2

\* C10: the collection check, made against n parties with f failed
\* retrievals, ends the session with the collection error and without
\* aggregating exactly when 2f > n; otherwise aggregateResults is called.
C10_CollectionThreshold ==
  \A x \in sessions :
    /\ x.nColl = -1 => ~x.aggregated /\ x.error # CollectionError
    /\ x.pc = "done" /\ x.error # DistributionError => x.nColl >= 0
    /\ x.nColl >= 0 =>
         /\ x.pc = "done"
         /\ (2 * FailedCount(x.partyResults) > x.nColl)
              <=> x.error = CollectionError
         /\ (2 * FailedCount(x.partyResults) > x.nColl)
              <=> ~x.aggregated
         /\ x.error = CollectionError
              => x.status = "error" /\ x.error # DistributionError
         /\ ~x.rosterChanged => x.nColl = Len(x.startRoster)

\* Two of three retrievals failed and the session ended with the collection
\* error.
C10_MajorityFailedCollection ==
  \E x \in sessions :
    /\ x.pc = "done"
    /\ x.error = CollectionError
    /\ ~x.rosterChanged
    /\ x.nColl = 3
    /\ FailedCount(x.partyResults) = 2

\* C11: executeSecureComputation never raises: whatever the roster and the
\* failures of deliveries and retrievals, a call that ended returned either a
\* 'success' value with the session's computationId, its result and its party
\* results, or an 'error' value with one of the three error messages. (The
\* task label is the argument handed back; it is left out of the model.)
C11_AlwaysStructuredResult ==
  \A x \in sessions :
    /\ x.status \in {"running", "success", "error"}
    /\ x.pc = "done" <=> x.status # "running"
    /\ x.pc = "done" =>
         /\ ReturnValue(x).status = x.status
         /\ x.status = "success" =>
              /\ DOMAIN ReturnValue(x) =
                   {"status", "computationId", "result", "partyResults"}
              /\ ReturnValue(x).computationId = x.cid
              /\ ReturnValue(x).partyResults = x.partyResults
              /\ x.error = ""
         /\ x.status = "error" =>
              /\ DOMAIN ReturnValue(x) = {"status", "error"}
              /\ ReturnValue(x).error \in
                   {DistributionError, CollectionError, NoValidResultsError}

\* A call on the empty roster returned the error value of aggregateResults.
C11_EmptyRosterReturnsError ==
  \E x \in sessions :
    /\ x.pc = "done"
    /\ x.startRoster = <<>>
    /\ ~x.rosterChanged
    /\ ReturnValue(x) = [status |-> "error", error |-> NoValidResultsError]

\* A Manager call that found its server and validated the given roster.
ValidatedCall(roster) ==
  /\ lastCall.op = "executeTaskOnServer"
  /\ lastCall.validated
  /\ lastCall.parties = roster

\* C12 as stated: under the default policies every executeTaskOnServer call on
\* a server of 0 parties gets past validation (raises no policy error).
C12_EmptyRosterNeverBlocked ==
  (ValidatedCall(<<>>) /\ securityPolicies = DefaultPolicies)
  => lastCall.raised = NoError

\* C12, amended: under the default policies an executeTaskOnServer call on a
\* server of 0 parties gets past validation exactly when its sensitivity is
\* listed by no policy ('low'); with 'medium' (the default) or 'high' it raises
\* the policy error. The session of a call that got through has 0 failed
\* deliveries and 0 party results, and returns the 'error' value with the
\* message of aggregateResults.
C12_EmptyRosterLowSensitivity ==
  /\ (ValidatedCall(<<>>) /\ securityPolicies = DefaultPolicies)
     => /\ lastCall.raised = NoError <=> lastCall.dataSensitivity = "low"
        /\ lastCall.raised # NoError
             => lastCall.raised.violations =
                  << << <<"insufficient parties", lastCall.dataSensitivity>> >> >>
  /\ \A x \in sessions :
       (x.origin = "manager" /\ x.startRoster = <<>> /\ ~x.rosterChanged)
       => /\ x.distFailed = 0
          /\ x.partyResults = <<>>
          /\ x.pc = "done"
               => /\ x.nDist = 0 /\ x.nColl = 0 /\ x.aggregated
                  /\ ReturnValue(x) =
                       [status |-> "error", error |-> NoValidResultsError]

\* The call on the empty roster, made with 'low', returned the error value.
C12_EmptyRosterSessionFailed ==
  /\ ValidatedCall(<<>>)
  /\ securityPolicies = DefaultPolicies
  /\ lastCall.dataSensitivity = "low"
  /\ \E x \in sessions :
       /\ x.cid = lastCall.cid
       /\ x.pc = "done"
       /\ ReturnValue(x).error = NoValidResultsError

\* The step of an executeTaskOnServer call that found its server.
ValidatedCallStep ==
  /\ lastCall'.seq # lastCall.seq
  /\ lastCall'.op = "executeTaskOnServer"
  /\ lastCall'.validated

\* C13: an executeTaskOnServer call is blocked exactly when some policy's
\* result has passed = false: it then raises the policy error that lists the
\* violations of every failed policy, and starts no session, so computationId
\* and results of the server are as they were.
C13_BlockedWhenAnyPolicyFails ==
  [][ValidatedCallStep =>
        LET failed == SelectSeq(lastCall'.returned, LAMBDA r : ~r.passed)
        IN IF failed # <<>>
           THEN /\ lastCall'.raised = SecurityValidationError(failed)
                /\ lastCall'.cid = NoId
                /\ UNCHANGED <<sessions, computationId, results, nextCid>>
           ELSE /\ lastCall'.raised = NoError
                /\ computationId'[lastCall'.server] = lastCall'.cid
                /\ \E x \in sessions' \ sessions : x.cid = lastCall'.cid]_vars

\* 'high' on a server of 2 parties under the default policies: the call was
\* blocked by the high-sensitivity policy alone, with no session started.
C13_HighOnTwoPartiesBlocked ==
  /\ lastCall.op = "executeTaskOnServer"
  /\ lastCall.validated
  /\ lastCall.dataSensitivity = "high"
  /\ Len(lastCall.parties) = 2
  /\ securityPolicies = DefaultPolicies
  /\ lastCall.raised =
       SecurityValidationError(
         << [policyId |-> "high-sensitivity", passed |-> FALSE,
             violations |-> << <<"insufficient parties", "high">> >>] >>)
  /\ sessions = {}
  /\ computationId[lastCall.server] = NoId

\* C15: an executeTaskOnServer call whose name matches no registered server
\* raises the not-found error and leaves the audit log and the policies as
\* they were (and starts nothing).
C15_UnknownServerNotFound ==
  [][(/\ lastCall'.seq # lastCall.seq
      /\ lastCall'.op = "executeTaskOnServer"
      /\ lastCall'.server \notin Range(servers))
     => /\ lastCall'.raised = NotFoundError(lastCall'.server)
        /\ UNCHANGED <<auditLogs, nextAuditId, securityPolicies, sessions,
                       computationId, results>>]_vars

\* A call on an unknown name made after a validated call: the log still holds
\* the one entry of the earlier call.
C15_NotFoundAfterValidation ==
  /\ lastCall.op = "executeTaskOnServer"
  /\ lastCall.raised = NotFoundError("beta")
  /\ lastCall.seq = 2
  /\ Len(auditLogs) = 1
  /\ auditLogs[1].eventType = "operation_validation"

\* The last call was a validateOperation call, made by a client or by the
\* Manager; lastCall holds its arguments and the list it returned.
Validated ==
  \/ lastCall.op = "validateOperation"
  \/ lastCall.op = "executeTaskOnServer" /\ lastCall.validated

\* The step of such a call.
ValidationStep ==
  /\ lastCall'.seq # lastCall.seq
  /\ \/ lastCall'.op = "validateOperation"
     \/ lastCall'.op = "executeTaskOnServer" /\ lastCall'.validated

ResultOf(policyId) ==
  lastCall.returned[CHOOSE i \in DOMAIN lastCall.returned :
                      lastCall.returned[i].policyId = policyId]

\* C14: under the default policy set, a validation against a roster of fewer
\* than 2 parties has passed = false in the result of the 'default' policy,
\* whatever the sensitivity.
C14_DefaultMinimumTwoParties ==
  (Validated /\ securityPolicies = DefaultPolicies /\ Len(lastCall.parties) < 2)
  => ~ResultOf("default").passed

\* C16: the audit log never holds more than 1000 entries, and a call that
\* appends k entries leaves the last 1000 of the old entries followed by the k
\* new ones: the old entries that stay keep their order, the oldest are the
\* ones dropped, and the new entries come last.
C16_AuditLogBoundedFifo ==
  [][LET k == nextAuditId' - nextAuditId
         total == Len(auditLogs) + k
         dropped == total - Len(auditLogs')
     IN /\ Len(auditLogs') = IF total > AuditCap THEN AuditCap ELSE total
        /\ \A i \in DOMAIN auditLogs' :
             IF i + dropped <= Len(auditLogs)
             THEN auditLogs'[i] = auditLogs[i + dropped]
             ELSE auditLogs'[i].id =
                    nextAuditId + (i + dropped - Len(auditLogs) - 1)]_vars

\* A validation was appended to a full log: the entry is last and the oldest
\* entries are gone.
C16_OldestDropped ==
  /\ Len(auditLogs) = AuditCap
  /\ auditLogs[1].id > 1
  /\ auditLogs[AuditCap].eventType = "operation_validation"
  /\ auditLogs[AuditCap].id = nextAuditId - 1

\* C17: a validateOperation call appends exactly one entry, of type
\* operation_validation, that records the operation, the ids of the parties
\* validated, the sensitivity and the result list the call returned.
C17_OneEntryPerValidation ==
  [][ValidationStep =>
       /\ nextAuditId' = nextAuditId + 1
       /\ auditLogs' =
            (IF Len(auditLogs) < AuditCap THEN auditLogs ELSE Tail(auditLogs))
            \o << [id |-> nextAuditId,
                   eventType |-> "operation_validation",
                   details |->
                     [operation |-> lastCall'.operation,
                      parties |-> [i \in DOMAIN lastCall'.parties |->
                                     lastCall'.parties[i].id],
                      dataSensitivity |-> lastCall'.dataSensitivity,
                      results |-> lastCall'.returned]] >>]_vars

\* A validation in which a policy failed, and its entry.
C17_FailedValidationLogged ==
  /\ lastCall.op = "validateOperation"
  /\ \E i \in DOMAIN lastCall.returned : ~lastCall.returned[i].passed
  /\ \E i \in DOMAIN lastCall.returned : lastCall.returned[i].passed
  /\ Len(lastCall.parties) = 3
  /\ auditLogs[Len(auditLogs)].details.results = lastCall.returned

\* C18: validate-and-log is one step. Whatever calls overlap, a step that logs
\* a validation logs that one entry only, and the entry holds the results of
\* the policies as they are against the server's roster as it is, all taken in
\* the state the call was made in (the log is far from its cap here).
C18_ValidateAndLogAtomic ==
  [][ValidationStep =>
       /\ nextAuditId' = nextAuditId + 1
       /\ Len(auditLogs') = Len(auditLogs) + 1
       /\ SubSeq(auditLogs', 1, Len(auditLogs)) = auditLogs
       /\ LET e == auditLogs'[Len(auditLogs')]
              roster == IF lastCall'.op = "executeTaskOnServer"
                        THEN parties[lastCall'.server]
                        ELSE lastCall'.parties
          IN /\ e.eventType = "operation_validation"
             /\ e.details.parties = [i \in DOMAIN roster |-> roster[i].id]
             /\ Len(e.details.results) = Len(securityPolicies)
             /\ \A i \in DOMAIN securityPolicies :
                  e.details.results[i] =
                    PolicyResult(securityPolicies[i], e.details.operation,
                                 roster, e.details.dataSensitivity)
       /\ UNCHANGED <<securityPolicies, parties>>]_vars

\* A second call was validated while the session of the first was in flight,
\* on a roster changed in between.
C18_ValidatedWhileSessionRuns ==
  /\ lastCall.op = "executeTaskOnServer"
  /\ lastCall.seq = 2
  /\ Len(auditLogs) = 2
  /\ auditLogs[1].eventType = "operation_validation"
  /\ auditLogs[2].eventType = "operation_validation"
  /\ auditLogs[1].details.parties # auditLogs[2].details.parties
  /\ \E x \in sessions : InFlight(x) /\ x.cid # lastCall.cid

\* C19: in a validation, every policy that requires authentication has
\* passed = false and a violation naming the party, for every unauthenticated
\* party of the roster; the list has one result per policy, in their order.
C19_UnauthenticatedPartyNamed ==
  Validated =>
    /\ Len(lastCall.returned) = Len(securityPolicies)
    /\ \A i \in DOMAIN securityPolicies :
         /\ lastCall.returned[i].policyId = securityPolicies[i].id
         /\ securityPolicies[i].requirePartyAuthentication =>
              \A j \in DOMAIN lastCall.parties :
                ~lastCall.parties[j].authenticated =>
                  /\ ~lastCall.returned[i].passed
                  /\ <<"not authenticated", lastCall.parties[j].id>>
                       \in Range(lastCall.returned[i].violations)

\* Two unauthenticated parties validated under three policies that require
\* authentication: each of the three results names both.
C19_EveryPolicyNamesBoth ==
  /\ lastCall.op = "validateOperation"
  /\ securityPolicies = DefaultPolicies
  /\ \A i \in 1..3 :
       /\ <<"not authenticated", "u1">> \in Range(lastCall.returned[i].violations)
       /\ <<"not authenticated", "u2">> \in Range(lastCall.returned[i].violations)

\* C20: a policy's result holds the 'insufficient parties' violation exactly
\* when the policy declares sensitivity levels, the requested sensitivity is
\* one of them and the roster is smaller than minimumParties.
C20_InsufficientPartiesRule ==
  Validated =>
    \A i \in DOMAIN securityPolicies :
      (<<"insufficient parties", lastCall.dataSensitivity>>
         \in Range(lastCall.returned[i].violations))
      <=> (/\ securityPolicies[i].dataSensitivityLevels # {}
           /\ lastCall.dataSensitivity \in
                securityPolicies[i].dataSensitivityLevels
           /\ Len(lastCall.parties) < securityPolicies[i].minimumParties)

\* 'high' validated on exactly the 3 parties the high-sensitivity policy asks
\* for: the policy passed.
C20_ExactlyMinimumPasses ==
  /\ lastCall.op = "validateOperation"
  /\ lastCall.dataSensitivity = "high"
  /\ Len(lastCall.parties) = 3
  /\ \E i \in DOMAIN securityPolicies :
       /\ securityPolicies[i].id = "high-sensitivity"
       /\ securityPolicies[i].minimumParties = 3
       /\ "high" \in securityPolicies[i].dataSensitivityLevels
       /\ lastCall.returned[i].violations = <<>>

\* C21: executeTask returns exactly one record per registered server, in the
\* order of the servers array, and the validated flow is attempted on every
\* server whatever happened on the ones before it: while the loop awaits the
\* session of servers[next], the servers up to it have been validated and the
\* ones before it have their record; an 'error' record carries the validation
\* error of its server and a 'success' record what the session returned.
C21_OneRecordPerServer ==
  \A b \in batches :
    LET done == IF b.pc = "returned" THEN Len(servers) ELSE b.next - 1
        reached == IF b.pc = "returned" THEN Len(servers) ELSE b.next
    IN /\ b.pc = "awaiting" => b.next \in 1..Len(servers)
       /\ Len(b.results) = done
       /\ \A i \in 1..done :
            /\ b.results[i].server = servers[i]
            /\ b.results[i].status \in {"success", "error"}
            /\ b.results[i].status = "error" =>
                 b.results[i].error.error = "Security validation failed"
            /\ b.results[i].status = "success" =>
                 b.results[i].result.status \in {"success", "error"}
       /\ b.validated = SubSeq(servers, 1, reached)

\* executeTask returned with the first server blocked by the policies and the
\* second one run.
C21_SecondRunsAfterFirstBlocked ==
  \E b \in batches :
    /\ b.pc = "returned"
    /\ b.results[1].status = "error"
    /\ b.results[2].status = "success"

CancelStep ==
  /\ lastCall'.seq # lastCall.seq
  /\ lastCall'.op = "cancelComputation"

\* C22: a cancelComputation call on a registered server reports 'cancelled'
\* whatever computation id it was given, and right after it the server's
\* computationId and results are null; on a name that is not registered it
\* raises the not-found error and no field of the Manager, of Governance or
\* of a server changes.
C22_CancelClearsOrNotFound ==
  [][CancelStep =>
       IF lastCall'.server \in Registered
       THEN /\ lastCall'.raised = NoError
            /\ lastCall'.returned.status = "cancelled"
            /\ lastCall'.returned.server = lastCall'.server
            /\ computationId'[lastCall'.server] = NoId
            /\ results'[lastCall'.server] = NoResult
       ELSE /\ lastCall'.raised = NotFoundError(lastCall'.server)
            /\ lastCall'.returned.status = "none"
            /\ UNCHANGED <<servers, securityPolicies, auditLogs, nextAuditId,
                           batches, serverVars>>]_vars

\* A cancellation by another id than the server's, after a session of the
\* server succeeded and stored its aggregate.
C22_CancelledAfterSuccess ==
  /\ lastCall.op = "cancelComputation"
  /\ lastCall.raised = NoError
  /\ lastCall.computationId = NoId
  /\ computationId[lastCall.server] = NoId
  /\ results[lastCall.server] = NoResult
  /\ \E x \in SessionsOf(lastCall.server) : x.status = "success"

\* The sessions that start in this step.
Started == {x \in sessions' : \A y \in sessions : y.cid # x.cid}

\* C23: a server's computationId is null or the id of the session started
\* last on it (it changes only to null or to the id of a session that starts
\* on the server in that very step, and every start sets it), and a session
\* that ends Failed leaves the server's computationId equal to its own id.
C23_PointerIsLatestSession ==
  [][/\ \A s \in ServerNames :
          computationId'[s] # computationId[s] =>
            \/ computationId'[s] = NoId
            \/ \E x \in Started : x.server = s /\ x.cid = computationId'[s]
     /\ \A x \in Started : computationId'[x.server] = x.cid
     /\ \A x \in sessions, y \in sessions' :
          (/\ y.cid = x.cid
           /\ InFlight(x)
           /\ ~InFlight(y)
           /\ y.status = "error") => computationId'[y.server] = y.cid]_vars

\* C24: a cancelQueuedTask call for an id held in the queue returns the entry
\* with that id and leaves the queue as it was without that entry, the other
\* entries in their order; for any other id, the id of the task being
\* processed included, it returns null and the queue stays as it is. Either
\* way the drain loops, the sessions and every other field of the server are
\* left as they are, so a task being processed goes on.
C24_CancelRemovesOnlyThatEntry ==
  [][lastCancel' # NoCancel =>
       LET s == lastCancel'.server
           id == lastCancel'.taskId
           q == taskQueue[s]
       IN /\ IF \E i \in DOMAIN q : q[i].id = id
             THEN /\ lastCancel'.returned \in Range(q)
                  /\ lastCancel'.returned.id = id
                  /\ taskQueue'[s] = SelectSeq(q, LAMBDA e : e.id # id)
                  /\ Len(taskQueue'[s]) = Len(q) - 1
             ELSE /\ lastCancel'.returned = NoTask
                  /\ taskQueue'[s] = q
          /\ \A t \in ServerNames \ {s} : taskQueue'[t] = taskQueue[t]
          /\ UNCHANGED <<drains, sessions, dequeued, isProcessing,
                         autonomousMode, parties, computationId, results,
                         nextTaskId, nextCid>>]_vars

\* cancelQueuedTask was called with the id of the task being processed while
\* other tasks wait in the queue: it returned null.
C24_ProcessingTaskNotCancelled ==
  /\ lastCancel # NoCancel
  /\ lastCancel.returned = NoTask
  /\ taskQueue[lastCancel.server] # <<>>
  /\ \E d \in DrainsOf(lastCancel.server) :
       /\ d.entry.id = lastCancel.taskId
       /\ d.entry.status = "processing"

\* The ids of the entries of a sequence of task entries.
Ids(q) == {q[i].id : i \in DOMAIN q}

Processing(id) ==
  \E d \in drains : d.entry.id = id /\ d.entry.status = "processing"

Terminal(id) ==
  \E d \in drains : d.entry.id = id /\ d.entry.status \in {"completed", "failed"}

\* C25: every entry held in taskQueue has status 'queued' and is neither the
\* entry of a drain loop nor one that was dequeued before; an entry becomes
\* 'processing' only in the step in which the drain loop shifts it off the
\* head of the queue (the queue as it is, or as addTaskToQueue has just made
\* it); and a processing entry reaches a terminal status.
C25_QueuedUntilDequeued ==
  /\ [](\A s \in ServerNames :
          /\ \A i \in DOMAIN taskQueue[s] : taskQueue[s][i].status = "queued"
          /\ Ids(taskQueue[s]) \cap Ids(dequeued[s]) = {}
          /\ \A d \in DrainsOf(s) :
               /\ d.entry.id \notin Ids(taskQueue[s])
               /\ d.entry.id \in Ids(dequeued[s])
               /\ d.entry.status \in {"processing", "completed"})
  /\ [][\A s \in ServerNames :
          dequeued'[s] # dequeued[s] =>
            LET e == dequeued'[s][Len(dequeued'[s])]
                before == <<[e EXCEPT !.status = "queued"]>> \o taskQueue'[s]
            IN /\ dequeued'[s] = Append(dequeued[s], e)
               /\ e.status = "processing"
               /\ \E d \in drains' : d.entry = e
               /\ \/ before = taskQueue[s]
                  \/ \E i \in DOMAIN before :
                       /\ before[i].id = nextTaskId
                       /\ RemoveAt(before, i) = taskQueue[s]]_vars
  /\ \A id \in 1..MaxTasks : Processing(id) ~> Terminal(id)

\* A task has completed while another one waits in the queue.
C25_CompletedWhileOthersQueued ==
  \E d \in drains :
    /\ d.entry.status = "completed"
    /\ taskQueue[d.server] # <<>>
    /\ Len(dequeued[d.server]) > 1

\* The sum of the numeric values the parties of the 'success' records reported.
RECURSIVE SumOfValues(_)
SumOfValues(valid) ==
  IF valid = <<>> THEN 0
  ELSE valid[1].result.result.num + SumOfValues(Tail(valid))

\* C26: the result a session that reached aggregation returns is the
\* arithmetic mean of the numeric values of exactly the parties whose
\* retrieval succeeded: their sum over their number.
C26_ResultIsMeanOfValid ==
  \A x \in sessions :
    x.status = "success" =>
      LET valid == ValidResults(x.partyResults)
      IN /\ x.result.kind = "number"
         /\ x.result.num = SumOfValues(valid)
         /\ x.result.den = Len(valid)

\* A Governance call has just been made.
GovernanceStep(ops) ==
  /\ lastCall'.seq # lastCall.seq
  /\ lastCall'.op \in ops

\* The policy id is not a key of securityPolicies.
UnknownPolicy(policyId) ==
  \A i \in DOMAIN securityPolicies : securityPolicies[i].id # policyId

\* C27: every successful defineSecurityPolicy, updatePolicy and removePolicy
\* call (one that raised nothing and, for removePolicy, removed a policy)
\* appends one audit entry, the log growing by one up to its cap.
C27_MutationsAudited ==
  [][(/\ GovernanceStep({"defineSecurityPolicy", "updatePolicy",
                         "removePolicy"})
      /\ lastCall'.raised = NoError
      /\ lastCall'.op = "removePolicy" => lastCall'.returned)
       => /\ nextAuditId' = nextAuditId + 1
          /\ Len(auditLogs') = Min({Len(auditLogs) + 1, AuditCap})
          /\ auditLogs'[Len(auditLogs')].id = nextAuditId]_vars

\* C28 as stated: updatePolicy and removePolicy on an id that is not defined
\* both raise the not-found error and leave the policies and the audit log
\* as they are.
C28_UnknownPolicyRaises ==
  [][(/\ GovernanceStep({"updatePolicy", "removePolicy"})
      /\ UnknownPolicy(lastCall'.policyId))
       => /\ lastCall'.raised = PolicyNotFoundError(lastCall'.policyId)
          /\ UNCHANGED <<securityPolicies, auditLogs, nextAuditId>>]_vars

\* C28, amended: on an id that is not defined updatePolicy raises the
\* not-found error and removePolicy raises nothing and returns false; both
\* leave the policies and the audit log as they are.
C28_UnknownPolicyLeftAlone ==
  [][(/\ GovernanceStep({"updatePolicy", "removePolicy"})
      /\ UnknownPolicy(lastCall'.policyId))
       => /\ UNCHANGED <<securityPolicies, auditLogs, nextAuditId>>
          /\ IF lastCall'.op = "updatePolicy"
             THEN lastCall'.raised = PolicyNotFoundError(lastCall'.policyId)
             ELSE /\ lastCall'.raised = NoError
                  /\ lastCall'.returned = FALSE]_vars

\* removePolicy was called a second time for a default policy that a first
\* call removed.
C28_RemovedTwice ==
  /\ lastCall.op = "removePolicy"
  /\ lastCall.policyId \in {"high-sensitivity", "medium-sensitivity", "default"}
  /\ lastCall.returned = FALSE
  /\ Len(auditLogs) = 1
  /\ auditLogs[1].eventType = "policy_remove"
  /\ auditLogs[1].details.policyId = lastCall.policyId

\* The stages of a session that succeeds, in their order.
StageOrder == <<"Init", "Distributing", "AwaitingComputation", "Collecting",
                "Aggregating", "Succeeded">>

Last(q) == q[Len(q)]

\* The stage a session is in while it waits at the await of pc.
StageAt(pc) ==
  IF pc \in {"distributing", "distributed"} THEN {"Distributing"}
  ELSE IF pc = "waiting" THEN {"AwaitingComputation"}
  ELSE IF pc \in {"collecting", "collected"} THEN {"Collecting"}
  ELSE {"Succeeded", "Failed"}

\* C29: the stages a session has entered are a prefix of Init, Distributing,
\* AwaitingComputation, Collecting, Aggregating, Succeeded, or such a prefix
\* cut short by Failed, and the list only grows; a share delivery settles
\* only in stage Distributing, a result is requested and a retrieval settles
\* only in stage Collecting, after the distribution loop has ended, its check
\* was made and the wait has elapsed; aggregation starts only when the
\* collection loop has ended and no retrieval is pending.
C29_StagesInOrder ==
  /\ [](\A x \in sessions :
          /\ \/ IsPrefix(x.stages, StageOrder)
             \/ \E k \in 2..5 :
                  x.stages = SubSeq(StageOrder, 1, k) \o <<"Failed">>
          /\ Last(x.stages) \in StageAt(x.pc)
          /\ x.partyResults # <<>> =>
               /\ SubSeq(x.stages, 1, 4) = SubSeq(StageOrder, 1, 4)
               /\ x.nDist >= 0
          /\ x.aggregated <=> (Len(x.stages) > 4 /\ x.stages[5] = "Aggregating"))
  /\ [][\A x \in sessions, y \in sessions' :
          y.cid = x.cid =>
            /\ IsPrefix(x.stages, y.stages)
            /\ y.distFailed # x.distFailed =>
                 Last(x.stages) = "Distributing" /\ x.partyResults = <<>>
            /\ y.partyResults # x.partyResults =>
                 Last(x.stages) = "Collecting" /\ Last(y.stages) = "Collecting"
            /\ (y.aggregated /\ ~x.aggregated) =>
                 /\ x.pc = "collected"
                 /\ x.idx = 0]_vars

\* A session has gone through every stage and succeeded although a delivery
\* and a retrieval failed.
C29_SucceededThroughEveryStage ==
  \E x \in sessions :
    /\ x.stages = StageOrder
    /\ x.distFailed > 0
    /\ FailedCount(x.partyResults) > 0

\* The retrievals of a session that succeeded.
Succeeded(x) == {i \in DOMAIN x.partyResults : x.partyResults[i].status = "success"}

\* C30 as stated: a session whose collection check passed, so that
\* aggregateResults was called, never fails with 'No valid results received
\* from parties' and has at least one successful retrieval, whatever the
\* party count.
C30_NoValidResultsUnreachable ==
  \A x \in sessions :
    x.aggregated =>
      /\ x.error # NoValidResultsError
      /\ Succeeded(x) # {}

\* C30, amended: when the collection check passed on a party count N equal to
\* the number of retrievals made, N >= 1 gives at least one successful
\* retrieval and aggregateResults does not fail, while N = 0 passes the
\* check with no result at all and aggregateResults fails with 'No valid
\* results received from parties'.
C30_NoValidResultsOnlyWithoutParties ==
  \A x \in sessions :
    (x.aggregated /\ Len(x.partyResults) = x.nColl) =>
      IF x.nColl >= 1
      THEN /\ Succeeded(x) # {}
           /\ x.status = "success"
           /\ 2 * Cardinality(Succeeded(x)) >= x.nColl
      ELSE /\ x.status = "error"
           /\ x.error = NoValidResultsError

\* A session on a roster that is and stays empty passed both threshold checks
\* and failed in aggregateResults.
C30_EmptyRosterPassesThreshold ==
  \E x \in sessions :
    /\ x.startRoster = <<>>
    /\ ~x.rosterChanged
    /\ x.nDist = 0
    /\ x.nColl = 0
    /\ x.aggregated
    /\ x.error = NoValidResultsError

\* C31: a cancelComputation call leaves every invocation of
\* executeSecureComputation as it is; a session in flight goes on to its
\* terminal state whatever was cancelled meanwhile; and a session that meets
\* its thresholds returns status 'success' with its own computationId.
C31_CancelOnlyDetaches ==
  /\ [][CancelStep => UNCHANGED <<sessions, drains, batches, parties>>]_vars
  /\ [](\A x \in sessions :
          /\ x.status = "success" =>
               /\ ReturnValue(x).status = "success"
               /\ ReturnValue(x).computationId = x.cid
               /\ ReturnValue(x).partyResults = x.partyResults
          /\ (/\ ~InFlight(x)
              /\ x.nDist >= 0
              /\ x.nColl >= 0
              /\ ~DistributionThresholdExceeded(x.distFailed, x.nDist)
              /\ ~CollectionThresholdExceeded(FailedCount(x.partyResults),
                                              x.nColl)
              /\ Succeeded(x) # {}) => x.status = "success")
  /\ \A cid \in 1..MaxCalls :
       (\E x \in sessions : x.cid = cid /\ InFlight(x))
         ~> (\A x \in sessions : x.cid = cid => ~InFlight(x))

\* A session succeeded after it was cancelled in flight: the server's
\* computationId is null and the aggregate stored after the cancellation is
\* there.
C31_SucceededAfterCancel ==
  \E x \in sessions :
    /\ x.status = "success"
    /\ computationId[x.server] = NoId
    /\ results[x.server] # NoResult
    /\ Cardinality(sessions) = 1
    /\ nextCid = 2

\* The ids of the roster session x started on.
StartIds(x) == Range(PartyIds(x.startRoster))

\* C32: a session works on the roster as it was when it started: the party a
\* share is on its way to and every party asked for a result are of that
\* roster, a collection loop that has ended asked exactly that roster, and
\* both threshold checks count that roster.
C32_RosterSnapshot ==
  \A x \in sessions :
    /\ x.pc = "distributing" => x.iter[x.idx].id \in StartIds(x)
    /\ x.pc = "collecting" => x.iter[x.idx].id \in StartIds(x)
    /\ \A i \in DOMAIN x.partyResults : x.partyResults[i].party \in StartIds(x)
    /\ (x.pc = "collected" \/ x.nColl >= 0) =>
         [i \in DOMAIN x.partyResults |-> x.partyResults[i].party]
           = PartyIds(x.startRoster)
    /\ x.nDist >= 0 => x.nDist = Len(x.startRoster)
    /\ x.nColl >= 0 => x.nColl = Len(x.startRoster)

\* C33: a server that holds a stored aggregate (results is not null) has a
\* computationId that is not null.
C33_AggregateImpliesPointer ==
  \A s \in ServerNames :
    results[s] # NoResult => computationId[s] # NoId

\* C34: no task entry has status 'failed', in the queue, in a drain loop or
\* among the dequeued ones; and when the session of a dequeued task ends,
\* Failed included, the drain loop marks the task 'completed' with what the
\* session returned as its result, whose status is 'error' for a Failed one.
C34_NeverFailedStatus ==
  /\ [](/\ \A d \in drains : d.entry.status \in {"processing", "completed"}
        /\ \A s \in ServerNames :
             /\ \A i \in DOMAIN taskQueue[s] : taskQueue[s][i].status # "failed"
             /\ \A i \in DOMAIN dequeued[s] : dequeued[s][i].status # "failed")
  /\ [][\A d \in drains, e \in drains' :
          (d.cid = e.cid /\ d.pc = "running" /\ e.pc = "paused") =>
            \E x \in sessions :
              /\ x.cid = d.cid
              /\ ~InFlight(x)
              /\ x.status \in {"success", "error"}
              /\ e.entry.id = d.entry.id
              /\ e.entry.status = "completed"
              /\ e.entry.result.status = x.status
              /\ x.status = "error" => e.entry.result.error = x.error]_vars

\* The session of a dequeued task failed at collection and the task is
\* marked completed.
C34_CompletedWithErrorResult ==
  \E d \in drains :
    /\ d.entry.status = "completed"
    /\ d.entry.result.status = "error"
    /\ d.entry.result.error = CollectionError

\* C35: in the records of executeTask, a server's record has status 'error'
\* exactly when the validation logged for that server has a failed policy
\* result; a server that passed has status 'success' and the value its
\* session returned, whose own status is 'error' when the session failed.
C35_ErrorIffValidationFailed ==
  \A b \in batches :
    /\ Len(b.audits) = Len(b.validated)
    /\ \A i \in DOMAIN b.results :
         /\ b.results[i].server = b.validated[i]
         /\ \A j \in DOMAIN auditLogs :
              LET e == auditLogs[j]
              IN e.id = b.audits[i] =>
                   /\ e.eventType = "operation_validation"
                   /\ b.results[i].status = "error" <=>
                        \E k \in DOMAIN e.details.results :
                          ~e.details.results[k].passed
                   /\ b.results[i].status = "success" <=>
                        \A k \in DOMAIN e.details.results :
                          e.details.results[k].passed
         /\ b.results[i].status = "success" =>
              b.results[i].result.status \in {"success", "error"}

\* executeTask returned a 'success' record that holds the 'error' value of a
\* session that failed, next to an 'error' record of a blocked server.
C35_SuccessRecordOfFailedSession ==
  \E b \in batches :
    /\ b.pc = "returned"
    /\ \E i \in DOMAIN b.results :
         /\ b.results[i].status = "success"
         /\ b.results[i].result.status = "error"
         /\ \E j \in DOMAIN auditLogs : auditLogs[j].id = b.audits[i]
    /\ \E i \in DOMAIN b.results : b.results[i].status = "error"

\* C36: every party result in the partyResults of a result with status
\* 'success' carries the computationId that the same result returns, whatever
\* other session or cancellation ran on the server in between.
C36_PartyResultsCarryOwnId ==
  \A x \in sessions :
    x.status = "success" =>
      \A i \in DOMAIN ReturnValue(x).partyResults :
        LET r == ReturnValue(x).partyResults[i]
        IN r.status = "success" =>
             r.result.computationId = ReturnValue(x).computationId

\* C37: in a session started through the Manager's executeTaskOnServer, the
\* party a share is on its way to, the party asked for its result and every
\* party that was asked are of the roster the call validated, which is the
\* roster the session started on; none of them is unauthenticated when that
\* roster passed the policies in force.
C37_OnlyValidatedPartiesTakePart ==
  \A x \in sessions :
    x.origin = "manager" =>
      /\ x.pc \in {"distributing", "collecting"} =>
           x.iter[x.idx] \in Range(x.startRoster)
      /\ \A i \in DOMAIN x.partyResults :
           x.partyResults[i].party \in StartIds(x)

\* C38: an executeTaskOnServer call on a registered server made while no
\* policy is defined gets the empty result list from validateOperation, logs
\* it, raises nothing and starts a session on the roster as it is, whatever
\* parties it holds.
C38_NoPolicyAllowsAnyRoster ==
  [][(/\ lastCall'.seq # lastCall.seq
      /\ lastCall'.op = "executeTaskOnServer"
      /\ lastCall'.validated
      /\ securityPolicies = <<>>) =>
       /\ lastCall'.returned = <<>>
       /\ lastCall'.raised = NoError
       /\ lastCall'.parties = parties[lastCall'.server]
       /\ Last(auditLogs').id = lastCall'.logged
       /\ Last(auditLogs').eventType = "operation_validation"
       /\ Last(auditLogs').details.results = <<>>
       /\ lastCall'.cid = nextCid
       /\ \E x \in sessions' :
            /\ x.cid = nextCid
            /\ x.server = lastCall'.server
            /\ x.origin = "manager"
            /\ x.startRoster = parties[lastCall'.server]
            /\ x.pc # "done"]_vars

\* With the last policy removed, the session of a single unauthenticated
\* party was started by the Manager and succeeded.
C38_UnauthenticatedPartySucceeded ==
  /\ securityPolicies = <<>>
  /\ lastCall.op = "executeTaskOnServer"
  /\ lastCall.returned = <<>>
  /\ lastCall.parties = <<Party("u1", FALSE)>>
  /\ \E i \in DOMAIN auditLogs :
       /\ auditLogs[i].eventType = "policy_remove"
       /\ auditLogs[i].details.policyId = "default"
  /\ \E x \in sessions : x.cid = lastCall.cid /\ x.status = "success"

\* C39: a generateSecurityReport call appends one compliance_check entry per
\* standard, five in the order of the standards, behind the entries of the
\* log that the cap lets stay; its totalAudits is the length of the log
\* before the call, and its recentViolations are the last ten, or all if
\* there are fewer, of the failed validations in the log before the call, in
\* the order of the log.
C39_ReportAppendsAndLists ==
  [][(/\ lastCall'.seq # lastCall.seq
      /\ lastCall'.op = "generateSecurityReport") =>
       LET r == lastCall'.returned
           n == Len(ComplianceStandards)
           kept == Min({Len(auditLogs), AuditCap - n})
           drop == Len(auditLogs) - kept
           idx == {j \in DOMAIN auditLogs :
                     /\ auditLogs[j].eventType = "operation_validation"
                     /\ \E i \in DOMAIN auditLogs[j].details.results :
                          ~auditLogs[j].details.results[i].passed}
           m == Len(r.recentViolations)
       IN /\ n = 5
          /\ r.totalAudits = Len(auditLogs)
          /\ Len(auditLogs') = kept + n
          /\ \A j \in 1..kept : auditLogs'[j] = auditLogs[j + drop]
          /\ \A j \in 1..n :
               auditLogs'[kept + j] =
                 AuditEntry(nextAuditId + j - 1, "compliance_check",
                            ComplianceReport(ComplianceStandards[j]))
          /\ m = Min({10, Cardinality(idx)})
          /\ \A i \in 1..m :
               \E j \in idx :
                 /\ r.recentViolations[i] = auditLogs[j]
                 /\ Cardinality({k \in idx : k > j}) = m - i]_vars

\* A report listed ten of the twelve blocked validations and its own
\* compliance checks pushed listed ones out of the log.
C39_ReportEvictedListedViolation ==
  /\ lastCall.op = "generateSecurityReport"
  /\ Len(lastCall.returned.recentViolations) = 10
  /\ lastCall.returned.totalAudits = AuditCap
  /\ Len(auditLogs) = AuditCap
  /\ \E i \in DOMAIN lastCall.returned.recentViolations :
       \A j \in DOMAIN auditLogs :
         auditLogs[j] # lastCall.returned.recentViolations[i]

\* C40: while autonomous mode is off on a server, no entry is dequeued there
\* and the entries in its queue stay as they are and in their order (a client
\* may add one); the task a drain loop is processing still reaches its
\* terminal status; isProcessing is true exactly while the server has a drain
\* loop, so false after every exit; and a drain loop on a server whose mode
\* was switched off exits with isProcessing false unless the mode is switched
\* on again first.
C40_DisableStopsDrainAfterCurrentTask ==
  /\ [](\A s \in ServerNames :
          /\ isProcessing[s] <=> DrainsOf(s) # {}
          /\ Cardinality(DrainsOf(s)) <= 1)
  /\ [][\A s \in ServerNames :
          ~autonomousMode[s] =>
            /\ dequeued'[s] = dequeued[s]
            /\ \A d \in DrainsOf(s) :
                 \A e \in drains' : e.server = s => e.entry.id = d.entry.id
            /\ \/ taskQueue'[s] = taskQueue[s]
               \/ \E i \in DOMAIN taskQueue'[s] :
                    /\ taskQueue'[s][i].id = nextTaskId
                    /\ RemoveAt(taskQueue'[s], i) = taskQueue[s]
            /\ (DrainsOf(s) # {} /\ \A e \in drains' : e.server # s) =>
                 ~isProcessing'[s]]_vars
  /\ \A id \in 1..MaxTasks :
       (Processing(id) /\ \E d \in drains :
                            d.entry.id = id /\ ~autonomousMode[d.server])
         ~> Terminal(id)
  /\ \A s \in ServerNames :
       (DrainsOf(s) # {} /\ ~autonomousMode[s])
         ~> (autonomousMode[s] \/ (DrainsOf(s) = {} /\ ~isProcessing[s]))

\* Autonomous mode was switched off under a drain loop: its task has
\* completed and two entries are still queued.
C40_DisabledUnderDrain ==
  \E d \in drains :
    /\ ~autonomousMode[d.server]
    /\ d.pc = "paused"
    /\ d.entry.status = "completed"
    /\ Len(taskQueue[d.server]) >= 2
    /\ isProcessing[d.server]

TypeOK ==
  /\ \A s \in ServerNames : Len(taskQueue[s]) <= MaxTasks
  /\ \A x \in sessions : x.cid < nextCid

====
